---- MODULE Spec2Model ----
(***************************************************************************)
(* Verification model of the Advent-of-Code harness (jgosmann/aoc):        *)
(*   - the file cache          src/src/cache.rs                            *)
(*   - the solve command       src/src/main.rs, solver-dispatch/src/lib.rs *)
(*   - the grid view           src/src/datastructures/grid.rs              *)
(*   - the surround iterator   src/src/datastructures/iterators.rs         *)
(* Each part has its own specification over its own variables; the        *)
(* variables of the other parts stay at their initial values.             *)
(***************************************************************************)
EXTENDS Integers, Sequences, FiniteSets, TLC

VARIABLES
    files,      \* cache directory: file name -> contents (sequence of bytes)
    pending,    \* writes handed to the blocking pool that have not run yet
    fetchCalls, \* key -> number of invocations of the injected fetch function
    pc,         \* caller -> position inside FileCache::get
    call,       \* caller -> locals of the running / last get
    ret,        \* caller -> result of the last get
    hist,       \* key -> first text returned, successful gets that fetched,
                \*        whether the last successful get was not the first
    gets,       \* number of gets started
    gridIn,     \* arguments of the grid-view constructor under test
    gridView,   \* the constructed GridView, or the panic
    gridOut,    \* the last index operation on the view and its outcome
    iter,       \* the SurroundIterator2d under test (with the grid size)
    yielded,    \* the cells it has yielded so far
    exhausted,  \* whether next() has returned None
    year,       \* solve command: the requested year
    days,       \* solve command: the requested days, in order
    idx,        \* position of the loop `for &day in days.iter()` (1-based)
    mpc,        \* position of main inside the loop body
    input,      \* the input text of the current day
    solver,     \* the solver constructed for the current day
    failure,    \* the error main ended with
    log,        \* the steps main has started, in order
    client,         \* whether the Lazy<AocClient> holds a value
    clientNews,     \* number of calls of AocClient::new
    sessionLookups, \* number of calls of SessionIdStore::session_id
    cachedAtStart,  \* the requested days whose input file existed at start
    args,       \* solver function under test: its arguments
    locals,     \* its local variables at the head of its loop
    result      \* its return value, once it has returned

cacheVars == <<files, pending, fetchCalls, pc, call, ret, hist, gets>>
gridVars == <<gridIn, gridView, gridOut>>
iterVars == <<iter, yielded, exhausted>>
clientVars == <<client, clientNews, sessionLookups, cachedAtStart>>
solveVars == <<clientVars, year, days, idx, mpc, input, solver, failure, log>>
fnVars == <<args, locals, result>>
vars == <<cacheVars, gridVars, iterVars, solveVars, fnVars>>

(***************************************************************************)
(* Bounds                                                                  *)
(***************************************************************************)
MaxGets == 3
MaxStreamLen == 2
MaxWidth == 5
MaxLen == 11
MaxRows == 3
MaxCols == 3
MaxSize == 3
MaxDays == 2
MaxSide == 3
MaxBytes == 3
MaxBeamSide == 2
MaxMirrors == 1
MaxSplits == 2
MaxRotations == 3
MaxLights == 4
MaxButtonValue == 8
MaxMazeSide == 3
MaxWalls == 1
MaxBoxes == 4
MaxCoordinate == 1
MaxConnections == 3
MaxComputers == 4
MaxMapLen == 7
MaxDigit == 3
MaxWarehouseRows == 4
MaxWarehouseCols == 3
MaxObstacles == 2
MaxPlatformSide == 3
MaxRoundRocks == 2
MaxCubeRocks == 1
MaxCycles == 7
MaxCreateDays == 2
MaxCreateDay == 2
MaxRuns == 3

(***************************************************************************)
(* Small helpers                                                           *)
(***************************************************************************)
Max(a, b) == IF a >= b THEN a ELSE b

RECURSIVE Flatten(_)
Flatten(ss) == IF ss = <<>> THEN <<>> ELSE Head(ss) \o Flatten(Tail(ss))

SeqsUpTo(S, n) == UNION {[1..m -> S] : m \in 0..n}

(***************************************************************************)
(* InputKey::serialize: format!("{:04}-{:02}", year, day)                  *)
(***************************************************************************)
DigitChar(d) ==
    CASE d = 0 -> "0" [] d = 1 -> "1" [] d = 2 -> "2" [] d = 3 -> "3"
      [] d = 4 -> "4" [] d = 5 -> "5" [] d = 6 -> "6" [] d = 7 -> "7"
      [] d = 8 -> "8" [] d = 9 -> "9"

RECURSIVE Decimal(_)
Decimal(n) == IF n < 10 THEN DigitChar(n) ELSE Decimal(n \div 10) \o DigitChar(n % 10)

RECURSIVE ZeroPad(_, _)
ZeroPad(s, width) == IF Len(s) >= width THEN s ELSE ZeroPad("0" \o s, width)

\* {:0w} is sign aware: the sign comes first and counts towards the width
FormatPadded(n, width) ==
    IF n < 0 THEN "-" \o ZeroPad(Decimal(0 - n), width - 1)
    ELSE ZeroPad(Decimal(n), width)

Serialize(key) == FormatPadded(key.year, 4) \o "-" \o FormatPadded(key.day, 2)

PathForKey(key) == Serialize(key)

Keys == {[year |-> 2022, day |-> 11], [year |-> 5, day |-> 1]}

(***************************************************************************)
(* Bytes, chunks and fetch streams.  A stream item is Ok(chunk) or an      *)
(* error; 65 is 'A', 195 169 is the two-byte encoding of U+00E9.           *)
(***************************************************************************)
Chunks == {<<65>>, <<195>>, <<169>>}
ErrItem == <<-2>>
Items == Chunks \cup {ErrItem}
Streams == SeqsUpTo(Items, MaxStreamLen)

\* String::from_utf8: well-formed UTF-8 byte sequences (Unicode table 3-7)
Cont(b) == b >= 128 /\ b <= 191
RECURSIVE Utf8Valid(_)
Utf8Valid(bs) ==
    IF bs = <<>> THEN TRUE
    ELSE LET b == bs[1]
             n == Len(bs)
             rest(k) == SubSeq(bs, k + 1, n)
         IN  IF b <= 127 THEN Utf8Valid(rest(1))
             ELSE IF b >= 194 /\ b <= 223
                  THEN n >= 2 /\ Cont(bs[2]) /\ Utf8Valid(rest(2))
             ELSE IF b >= 224 /\ b <= 239
                  THEN /\ n >= 3
                       /\ Cont(bs[2]) /\ Cont(bs[3])
                       /\ (b = 224 => bs[2] >= 160)
                       /\ (b = 237 => bs[2] <= 159)
                       /\ Utf8Valid(rest(3))
             ELSE IF b >= 240 /\ b <= 244
                  THEN /\ n >= 4
                       /\ Cont(bs[2]) /\ Cont(bs[3]) /\ Cont(bs[4])
                       /\ (b = 240 => bs[2] >= 144)
                       /\ (b = 244 => bs[2] <= 143)
                       /\ Utf8Valid(rest(4))
             ELSE FALSE

(***************************************************************************)
(* Files.  A write through a file handle lands at the handle's offset.    *)
(***************************************************************************)
Exists(path) == path \in DOMAIN files

WriteAt(content, pos, bytes) ==
    [i \in 1..Max(Len(content), pos + Len(bytes)) |->
        IF i > pos /\ i <= pos + Len(bytes) THEN bytes[i - pos]
        ELSE IF i <= Len(content) THEN content[i]
        ELSE 0]

PutFile(fs, path, content) ==
    [n \in DOMAIN fs \cup {path} |-> IF n = path THEN content ELSE fs[n]]

Callers == {1, 2}
NoText == <<-1>>
NoKey == [year |-> 0, day |-> 0]

IdleCall ==
    [key |-> NoKey, path |-> "", existed |-> FALSE, dirBefore |-> {},
     fetched |-> FALSE, fetchFailed |-> FALSE, stream |-> <<>>,
     source |-> <<>>, streamErrored |-> FALSE, pos |-> 0,
     writeErr |-> FALSE, readBytes |-> <<>>, didRead |-> FALSE]

NoRet == [ok |-> FALSE, text |-> NoText, err |-> "none"]
Ok(text) == [ok |-> TRUE, text |-> text, err |-> "none"]
Err(kind) == [ok |-> FALSE, text |-> NoText, err |-> kind]

NoFiles == [n \in {} |-> <<>>]
InitFiles == {NoFiles, PutFile(NoFiles, "2022-11", <<65>>)}

InitCache ==
    /\ files \in InitFiles
    /\ pending = {}
    /\ fetchCalls = [k \in Keys |-> 0]
    /\ pc = [p \in Callers |-> "idle"]
    /\ call = [p \in Callers |-> IdleCall]
    /\ ret = [p \in Callers |-> NoRet]
    /\ hist = [k \in Keys |-> [first |-> NoText, okFetches |-> 0, later |-> FALSE]]
    /\ gets = 0

(***************************************************************************)
(* FileCache::get and FileCache::populate, one action per await point.     *)
(***************************************************************************)
\* end of a get: the result is handed to the caller
Finish(p, r, c) ==
    /\ pc' = [pc EXCEPT ![p] = "done"]
    /\ ret' = [ret EXCEPT ![p] = r]
    /\ call' = [call EXCEPT ![p] = c]
    /\ hist' = IF r.ok
               THEN [hist EXCEPT ![c.key] =
                        [first |-> IF @.first = NoText THEN r.text ELSE @.first,
                         okFetches |-> @.okFetches + (IF c.fetched THEN 1 ELSE 0),
                         later |-> @.first # NoText]]
               ELSE hist

\* dropping the sink does not wait for a write that is still in flight
DropSink(p) ==
    {IF w.owner = p THEN [w EXCEPT !.owner = 0] ELSE w : w \in pending}

\* get without the existence test: it populates every time
GetBegin_AlwaysFetch(p, k) ==
    /\ pc[p] = "idle"
    /\ LET path == PathForKey(k) IN
       /\ call' = [call EXCEPT ![p] =
                     [IdleCall EXCEPT !.key = k, !.path = path,
                                      !.existed = Exists(path),
                                      !.dirBefore = DOMAIN files]]
       /\ pc' = [pc EXCEPT ![p] = "fetch"]
    /\ gets' = gets + 1
    /\ UNCHANGED <<files, pending, fetchCalls, ret, hist>>

\* get, up to `if !path.exists()`
GetBegin(p, k) ==
    /\ pc[p] = "idle"
    /\ LET path == PathForKey(k) IN
       /\ call' = [call EXCEPT ![p] =
                     [IdleCall EXCEPT !.key = k, !.path = path,
                                      !.existed = Exists(path),
                                      !.dirBefore = DOMAIN files]]
       /\ pc' = [pc EXCEPT ![p] = IF Exists(path) THEN "read" ELSE "fetch"]
    /\ gets' = gets + 1
    /\ UNCHANGED <<files, pending, fetchCalls, ret, hist>>

\* populate: (self.fetch)(*key) is invoked
FetchCall(p) ==
    /\ pc[p] = "fetch"
    /\ fetchCalls' = [fetchCalls EXCEPT ![call[p].key] = @ + 1]
    /\ call' = [call EXCEPT ![p].fetched = TRUE]
    /\ pc' = [pc EXCEPT ![p] = "fetching"]
    /\ UNCHANGED <<files, pending, ret, hist, gets>>

\* populate: the fetch future resolves, `.await?`
FetchReturn(p) ==
    /\ pc[p] = "fetching"
    /\ \/ /\ Finish(p, Err("fetch"), [call[p] EXCEPT !.fetchFailed = TRUE])
          /\ UNCHANGED <<files, pending, fetchCalls, gets>>
       \/ /\ \E s \in Streams :
                call' = [call EXCEPT ![p].source = s, ![p].stream = s]
          /\ pc' = [pc EXCEPT ![p] = "create"]
          /\ UNCHANGED <<files, pending, fetchCalls, ret, hist, gets>>

\* populate: File::create(path), creates or truncates
CreateFile(p) ==
    /\ pc[p] = "create"
    /\ \/ /\ Finish(p, Err("create"), call[p])
          /\ UNCHANGED <<files, pending, fetchCalls, gets>>
       \/ /\ files' = PutFile(files, call[p].path, <<>>)
          /\ call' = [call EXCEPT ![p].pos = 0]
          /\ pc' = [pc EXCEPT ![p] = "stream"]
          /\ UNCHANGED <<pending, fetchCalls, ret, hist, gets>>

\* StreamNext with the `?` on the stream item lost: an error item is skipped
StreamNext_SkipError(p) ==
    /\ pc[p] = "stream"
    /\ LET c == call[p] IN
       IF c.source = <<>>
       THEN /\ pending' = DropSink(p)
            /\ pc' = [pc EXCEPT ![p] = "read"]
            /\ UNCHANGED <<files, fetchCalls, call, ret, hist, gets>>
       ELSE IF Head(c.source) = ErrItem
       THEN /\ call' = [call EXCEPT ![p].source = Tail(c.source),
                                    ![p].streamErrored = TRUE]
            /\ UNCHANGED <<files, pending, fetchCalls, pc, ret, hist, gets>>
       ELSE /\ \A w \in pending : w.owner # p
            /\ IF c.writeErr
               THEN /\ Finish(p, Err("write"), c)
                    /\ UNCHANGED <<files, pending, fetchCalls, gets>>
               ELSE /\ pending' = pending \cup
                          {[owner |-> p, path |-> c.path, pos |-> c.pos,
                            bytes |-> Head(c.source)]}
                    /\ call' = [call EXCEPT ![p].source = Tail(c.source),
                                            ![p].pos = c.pos + Len(Head(c.source))]
                    /\ UNCHANGED <<files, fetchCalls, pc, ret, hist, gets>>

\* populate: one turn of `while let Some(bytes) = source.next().await`
\* tokio::fs::File::write_all waits for the previous write of this handle
\* and reports its error, then hands the new buffer to the blocking pool and
\* returns ("calls to write will return before the write has finished, and
\* flush will wait for the write to finish", tokio::fs); populate never
\* flushes, so its last write may still be in flight when it returns.
StreamNext(p) ==
    /\ pc[p] = "stream"
    /\ LET c == call[p] IN
       IF c.source = <<>>
       THEN \* stream exhausted, populate returns Ok(())
            /\ pending' = DropSink(p)
            /\ pc' = [pc EXCEPT ![p] = "read"]
            /\ UNCHANGED <<files, fetchCalls, call, ret, hist, gets>>
       ELSE IF Head(c.source) = ErrItem
       THEN \* `bytes?`
            /\ pending' = DropSink(p)
            /\ Finish(p, Err("stream"), [c EXCEPT !.streamErrored = TRUE])
            /\ UNCHANGED <<files, fetchCalls, gets>>
       ELSE /\ \A w \in pending : w.owner # p
            /\ IF c.writeErr
               THEN /\ Finish(p, Err("write"), c)
                    /\ UNCHANGED <<files, pending, fetchCalls, gets>>
               ELSE /\ pending' = pending \cup
                          {[owner |-> p, path |-> c.path, pos |-> c.pos,
                            bytes |-> Head(c.source)]}
                    /\ call' = [call EXCEPT ![p].source = Tail(c.source),
                                            ![p].pos = c.pos + Len(Head(c.source))]
                    /\ UNCHANGED <<files, fetchCalls, pc, ret, hist, gets>>

\* a blocking-pool thread performs a write handed over by write_all
BackgroundWrite ==
    \E w \in pending :
        /\ pending' = pending \ {w}
        /\ \/ /\ files' = PutFile(files, w.path, WriteAt(files[w.path], w.pos, w.bytes))
              /\ UNCHANGED call
           \/ /\ UNCHANGED files
              /\ call' = IF w.owner = 0 THEN call
                         ELSE [call EXCEPT ![w.owner].writeErr = TRUE]
        /\ UNCHANGED <<fetchCalls, pc, ret, hist, gets>>

\* get: tokio::fs::read(&path) and String::from_utf8(input)
ReadFile(p) ==
    /\ pc[p] = "read"
    /\ LET c == call[p] IN
       \/ Finish(p, Err("read"), c)
       \/ /\ Exists(c.path)
          /\ LET bytes == files[c.path]
                 c2 == [c EXCEPT !.didRead = TRUE, !.readBytes = bytes]
             IN  IF Utf8Valid(bytes)
                 THEN Finish(p, Ok(bytes), c2)
                 ELSE Finish(p, Err("utf8"), c2)
    /\ UNCHANGED <<files, pending, fetchCalls, gets>>

\* the caller takes the result
GetReturn(p) ==
    /\ pc[p] = "done"
    /\ pc' = [pc EXCEPT ![p] = "idle"]
    /\ call' = [call EXCEPT ![p] = IdleCall]
    /\ ret' = [ret EXCEPT ![p] = NoRet]
    /\ UNCHANGED <<files, pending, fetchCalls, hist, gets>>

\* a test or caller starts a get for any key, one get at a time
CacheCall(p) ==
    /\ gets < MaxGets
    /\ \A q \in Callers : pc[q] = "idle"
    /\ \E k \in Keys : GetBegin(p, k)

SeqCallers == {1}

\* two gets of one initially absent key that are not coordinated: tasks
\* of one process, or two processes on the same cache directory; every
\* caller calls get once
ConcKey == [year |-> 5, day |-> 1]

InitConc ==
    /\ files = NoFiles
    /\ pending = {}
    /\ fetchCalls = [k \in Keys |-> 0]
    /\ pc = [p \in Callers |-> "idle"]
    /\ call = [p \in Callers |-> IdleCall]
    /\ ret = [p \in Callers |-> NoRet]
    /\ hist = [k \in Keys |-> [first |-> NoText, okFetches |-> 0, later |-> FALSE]]
    /\ gets = 0

ConcCall(p) ==
    /\ gets < Cardinality(Callers)
    /\ GetBegin(p, ConcKey)

IdleCache ==
    /\ files = NoFiles
    /\ pending = {}
    /\ fetchCalls = [k \in Keys |-> 0]
    /\ pc = [p \in Callers |-> "idle"]
    /\ call = [p \in Callers |-> IdleCall]
    /\ ret = [p \in Callers |-> NoRet]
    /\ hist = [k \in Keys |-> [first |-> NoText, okFetches |-> 0, later |-> FALSE]]
    /\ gets = 0

(***************************************************************************)
(* solver_dispatch! (solver-dispatch/src/lib.rs): the match arms are       *)
(* generated from the listing of src/solvers.  File names are sequences of *)
(* characters.                                                             *)
(***************************************************************************)
RECURSIVE DecimalChars(_)
DecimalChars(n) ==
    IF n < 10 THEN <<DigitChar(n)>>
    ELSE Append(DecimalChars(n \div 10), DigitChar(n % 10))

YearDirName(y) == <<"y", "e", "a", "r">> \o DecimalChars(y)
DayFileName(d) == <<"d", "a", "y">> \o DecimalChars(d) \o <<".", "r", "s">>

File(type, name) == [file_type |-> type, file_name |-> name]

\* the solver files of the repository: 2023 and 2024 days 1..25, 2025 days 1..12
SolverDays(y) == IF y \in {2023, 2024} THEN 1..25 ELSE IF y = 2025 THEN 1..12 ELSE {}

\* fs::read_dir(path); the base directory is the empty path
ReadDir(path) ==
    IF path = <<>>
    THEN {File("dir", YearDirName(y)) : y \in {2023, 2024, 2025}}
         \cup {File("file", <<"m", "o", "d", ".", "r", "s">>)}
    ELSE UNION {IF path = YearDirName(y)
                THEN {File("file", DayFileName(d)) : d \in SolverDays(y)}
                     \cup (IF y = 2024 THEN {File("dir", <<"s", "r", "c">>)} ELSE {})
                ELSE {} : y \in {2023, 2024, 2025}}

StartsWith(name, prefix) ==
    Len(name) >= Len(prefix) /\ SubSeq(name, 1, Len(prefix)) = prefix
EndsWith(name, suffix) ==
    Len(name) >= Len(suffix)
    /\ SubSeq(name, Len(name) - Len(suffix) + 1, Len(name)) = suffix

DigitValue(ch) ==
    CASE ch = "0" -> 0 [] ch = "1" -> 1 [] ch = "2" -> 2 [] ch = "3" -> 3
      [] ch = "4" -> 4 [] ch = "5" -> 5 [] ch = "6" -> 6 [] ch = "7" -> 7
      [] ch = "8" -> 8 [] ch = "9" -> 9 [] OTHER -> -1

\* str::parse of an unsigned decimal; -1 stands for the Err that the
\* macro's expect() turns into a compile error
RECURSIVE ParseDigits(_, _)
ParseDigits(chars, acc) ==
    IF chars = <<>> THEN acc
    ELSE IF DigitValue(Head(chars)) < 0 THEN -1
    ELSE ParseDigits(Tail(chars), acc * 10 + DigitValue(Head(chars)))
ParseNumber(chars) == IF chars = <<>> THEN -1 ELSE ParseDigits(chars, 0)

\* filter_by_file_type_and_name; the predicate closure is a Boolean
\* function on the directory's entries
FilterByFileTypeAndName(path, predicate) == {f \in ReadDir(path) : predicate[f]}

\* solver_dispatch: `years`
DispatchYears ==
    LET isYearDir == [file \in ReadDir(<<>>) |->
            file.file_type = "dir" /\ StartsWith(file.file_name, <<"y", "e", "a", "r">>)]
    IN  {ParseNumber(SubSeq(f.file_name, 5, Len(f.file_name))) :
            f \in FilterByFileTypeAndName(<<>>, isYearDir)}

\* solver_dispatch: `years_with_days`, one match arm each
DispatchArms ==
    LET isDayModule(y) == [file \in ReadDir(YearDirName(y)) |->
            /\ file.file_type = "file"
            /\ StartsWith(file.file_name, <<"d", "a", "y">>)
            /\ EndsWith(file.file_name, <<".", "r", "s">>)]
    IN  UNION {{<<y, ParseNumber(SubSeq(f.file_name, 4, Len(f.file_name) - 3))>> :
                  f \in FilterByFileTypeAndName(YearDirName(y), isDayModule(y))} :
               y \in DispatchYears}

NoSolver == [year |-> 0, day |-> 0, input |-> NoText]
NoFailure == [kind |-> "none", msg |-> ""]

\* the generated match with the arguments of the fallback message swapped
SolverDispatch_SwappedMessage(y, d) ==
    IF <<y, d>> \in DispatchArms
    THEN [found |-> TRUE, module |-> <<y, d>>, msg |-> ""]
    ELSE [found |-> FALSE, module |-> <<0, 0>>,
          msg |-> "no solver for day " \o Decimal(y) \o " of year " \o Decimal(d)]

\* the generated `match (year, day) { ... }`: which SolverImpl::new is
\* called, or the message of the fallback arm
SolverDispatch(y, d) ==
    IF <<y, d>> \in DispatchArms
    THEN [found |-> TRUE, module |-> <<y, d>>, msg |-> ""]
    ELSE [found |-> FALSE, module |-> <<0, 0>>,
          msg |-> "no solver for day " \o Decimal(d) \o " of year " \o Decimal(y)]

(***************************************************************************)
(* The solve command (main.rs): main is caller 1 of the input cache.       *)
(***************************************************************************)
ReqYears == {2024, 2025, 2026}
ReqDays == {12, 13}
InputKey(y, d) == [year |-> y, day |-> d]
SolveKeys == {InputKey(y, d) : y \in ReqYears, d \in ReqDays}
Main == 1

Event(step, i) == [step |-> step, i |-> i]

InitSolve ==
    /\ year \in ReqYears
    /\ days \in SeqsUpTo(ReqDays, MaxDays) \ {<<>>}
    /\ idx = 1
    /\ mpc = "loop"
    /\ input = NoText
    /\ solver = NoSolver
    /\ failure = NoFailure
    /\ log = <<>>
    /\ cachedAtStart \in SUBSET {days[i] : i \in 1..Len(days)}
    /\ files = [n \in {PathForKey(InputKey(year, d)) : d \in cachedAtStart} |-> <<65>>]
    /\ client = FALSE
    /\ clientNews = 0
    /\ sessionLookups = 0
    /\ pending = {}
    /\ fetchCalls = [k \in SolveKeys |-> 0]
    /\ pc = [p \in Callers |-> "idle"]
    /\ call = [p \in Callers |-> IdleCall]
    /\ ret = [p \in Callers |-> NoRet]
    /\ hist = [k \in SolveKeys |-> [first |-> NoText, okFetches |-> 0, later |-> FALSE]]
    /\ gets = 0

IdleSolve ==
    /\ client = FALSE
    /\ clientNews = 0
    /\ sessionLookups = 0
    /\ cachedAtStart = {}
    /\ year = 0
    /\ days = <<>>
    /\ idx = 1
    /\ mpc = "idle"
    /\ input = NoText
    /\ solver = NoSolver
    /\ failure = NoFailure
    /\ log = <<>>

\* `?`: main returns the error
Fail(kind, msg, events) ==
    /\ mpc' = "exit_err"
    /\ failure' = [kind |-> kind, msg |-> msg]
    /\ log' = log \o events \o <<Event("error", idx)>>

\* MainLoop continuing with the next day after a get that failed
MainGetDone_IgnoreError ==
    /\ mpc = "get"
    /\ pc[Main] = "done"
    /\ GetReturn(Main)
    /\ IF ret[Main].ok
       THEN /\ input' = ret[Main].text
            /\ mpc' = "dispatch"
            /\ UNCHANGED <<failure, log>>
       ELSE /\ input' = input
            /\ mpc' = "loop"
            /\ failure' = failure
            /\ log' = Append(log, Event("error", idx))
    /\ idx' = IF ret[Main].ok THEN idx ELSE idx + 1
    /\ UNCHANGED <<clientVars, year, days, solver>>

\* top of the loop: the next day, or the end of main; the header is
\* printed and input_cache.get(&InputKey::from_yd(year, day)) is called
MainLoop ==
    /\ mpc = "loop"
    /\ IF idx > Len(days)
       THEN /\ mpc' = "exit_ok"
            /\ UNCHANGED <<cacheVars, log>>
       ELSE /\ GetBegin(Main, InputKey(year, days[idx]))
            /\ mpc' = "get"
            /\ log' = Append(log, Event("get", idx))
    /\ UNCHANGED <<clientVars, year, days, idx, input, solver, failure>>

\* lazy_init::Lazy::get_or_create runs its closure only while no value
\* is stored
LazyHasValue_Never == FALSE

LazyHasValue == client

\* a panic inside the fetch closure (`expect` in create_client) unwinds
\* through get and main
PanicInFetch ==
    /\ fetchCalls' = [fetchCalls EXCEPT ![call[Main].key] = @ + 1]
    /\ pc' = [pc EXCEPT ![Main] = "idle"]
    /\ call' = [call EXCEPT ![Main] = IdleCall]
    /\ UNCHANGED <<files, pending, ret, hist, gets>>
    /\ Fail("panic", "", <<Event("fetch", idx)>>)

\* the fetch closure is invoked by the cache:
\* client.get_or_create(create_client), then client.get_input(year, day)
MainFetch ==
    /\ mpc = "get"
    /\ pc[Main] = "fetch"
    /\ IF LazyHasValue
       THEN /\ FetchCall(Main)
            /\ log' = Append(log, Event("fetch", idx))
            /\ UNCHANGED <<client, clientNews, sessionLookups, mpc, failure>>
       ELSE /\ sessionLookups' = sessionLookups + 1
            /\ \/ /\ clientNews' = clientNews + 1
                  /\ client' = TRUE
                  /\ FetchCall(Main)
                  /\ log' = Append(log, Event("fetch", idx))
                  /\ UNCHANGED <<mpc, failure>>
               \/ /\ clientNews' = clientNews
                  /\ client' = client
                  /\ PanicInFetch
               \/ /\ clientNews' = clientNews + 1
                  /\ client' = client
                  /\ PanicInFetch
    /\ UNCHANGED <<cachedAtStart, year, days, idx, input, solver>>

\* `input_cache.get(..).await?` returns
MainGetDone ==
    /\ mpc = "get"
    /\ pc[Main] = "done"
    /\ GetReturn(Main)
    /\ IF ret[Main].ok
       THEN /\ input' = ret[Main].text
            /\ mpc' = "dispatch"
            /\ UNCHANGED <<failure, log>>
       ELSE /\ input' = input
            /\ Fail("get", ret[Main].err, <<>>)
    /\ UNCHANGED <<clientVars, year, days, idx, solver>>

\* `solver_dispatch!(input, year, day)?`: the matching arm calls
\* SolverImpl::new(&input)?, which can fail to parse the input
MainDispatch ==
    /\ mpc = "dispatch"
    /\ LET d == SolverDispatch(year, days[idx]) IN
       IF ~d.found
       THEN /\ Fail("dispatch", d.msg, <<>>)
            /\ UNCHANGED solver
       ELSE \/ /\ solver' = [year |-> d.module[1], day |-> d.module[2], input |-> input]
               /\ mpc' = "part1"
               /\ log' = Append(log, Event("new", idx))
               /\ UNCHANGED failure
            \/ /\ Fail("parse", "", <<Event("new", idx)>>)
               /\ UNCHANGED solver
    /\ UNCHANGED <<cacheVars, clientVars, year, days, idx, input>>

\* `solver.solve_part_1()?`
MainPart1 ==
    /\ mpc = "part1"
    /\ \/ /\ mpc' = "part2"
          /\ log' = Append(log, Event("part1", idx))
          /\ UNCHANGED failure
       \/ Fail("part1", "", <<Event("part1", idx)>>)
    /\ UNCHANGED <<cacheVars, clientVars, year, days, idx, input, solver>>

\* `solver.solve_part_2()?` and the end of the loop body
MainPart2 ==
    /\ mpc = "part2"
    /\ \/ /\ mpc' = "loop"
          /\ idx' = idx + 1
          /\ solver' = NoSolver
          /\ log' = Append(log, Event("part2", idx))
          /\ UNCHANGED failure
       \/ /\ Fail("part2", "", <<Event("part2", idx)>>)
          /\ UNCHANGED <<idx, solver>>
    /\ UNCHANGED <<cacheVars, clientVars, year, days, input>>

\* the steps of the cache that do not involve main's own variables
MainCacheStep(A) == mpc = "get" /\ A /\ UNCHANGED solveVars

(***************************************************************************)
(* GridView (datastructures/grid.rs).  usize arithmetic: a subtraction     *)
(* below zero panics in a debug build and wraps to a value near 2^64 in a  *)
(* release build.  The arguments are kept to separator_width <= width,     *)
(* where both builds agree: the only subtraction that can then overflow    *)
(* is `width - separator_width - 1` in the length check, and there either  *)
(* the overflow panics or the wrapped bound exceeds every remainder and    *)
(* the check panics.                                                       *)
(***************************************************************************)
PanicView == [ok |-> FALSE, width |-> 0, pub_size |-> <<0, 0>>, data |-> <<>>]
NoView == [ok |-> FALSE, width |-> 0, pub_size |-> <<0, 0>>, data |-> <<-1>>]
Panicked == [ok |-> FALSE, val |-> 0]
Value(v) == [ok |-> TRUE, val |-> v]
NoOut == [index |-> <<0, 0>>, res |-> [ok |-> FALSE, val |-> -1]]

\* usize::div_ceil
DivCeil(a, b) ==
    LET d == a \div b
        r == a % b
    IN  IF r > 0 THEN d + 1 ELSE d

\* `data.len() % width < width - separator_width - 1`
LengthCheckFails(rem, width, separator_width) ==
    IF width - separator_width - 1 < 0 THEN TRUE
    ELSE rem < width - separator_width - 1

\* GridView::new with the height computed by truncating division
GridNew_FloorHeight(width, separator_width, data) ==
    IF width = 0 THEN PanicView
    ELSE IF Len(data) % width > 0
            /\ LengthCheckFails(Len(data) % width, width, separator_width)
    THEN PanicView
    ELSE [ok |-> TRUE, width |-> width, data |-> data,
          pub_size |-> <<Len(data) \div width, width - separator_width>>]

\* GridView::new
GridNew(width, separator_width, data) ==
    IF width = 0 THEN PanicView
    ELSE IF Len(data) % width > 0
            /\ LengthCheckFails(Len(data) % width, width, separator_width)
    THEN PanicView
    ELSE [ok |-> TRUE, width |-> width, data |-> data,
          pub_size |-> <<DivCeil(Len(data), width), width - separator_width>>]

\* GridView::from_vec
GridFromVec(width, separator_width, data) ==
    IF width = 0 THEN PanicView
    ELSE IF Len(data) % width > 0
            /\ LengthCheckFails(Len(data) % width, width, separator_width)
    THEN PanicView
    ELSE [ok |-> TRUE, width |-> width,
          pub_size |-> <<DivCeil(Len(data), width), width - separator_width>>,
          data |-> data]

\* data.iter().position(|item| *item == separator).unwrap_or(data.len())
Position(separator, data) ==
    IF \E i \in 1..Len(data) : data[i] = separator
    THEN (CHOOSE i \in 1..Len(data) :
             /\ data[i] = separator
             /\ \A j \in 1..(i - 1) : data[j] # separator) - 1
    ELSE Len(data)

\* GridView::from_separated passing the row width without the separator
GridFromSeparated_DataWidth(separator, data) ==
    GridNew(Position(separator, data), 1, data)

\* GridView::from_separated
GridFromSeparated(separator, data) ==
    GridNew(Position(separator, data) + 1, 1, data)

Width(view) == view.pub_size[2]
Height(view) == view.pub_size[1]

\* Index<(usize, usize)>::index; the slice index panics out of bounds
GridIndex(view, index) ==
    IF index[2] >= Width(view) THEN Panicked
    ELSE LET offset == view.width * index[1] + index[2]
         IN  IF offset < Len(view.data) THEN Value(view.data[offset + 1])
             ELSE Panicked

\* the buffers of the tests: sequential bytes [0..len)
Sequential(len) == [i \in 1..len |-> i - 1]

\* rows of `cols` elements joined by the separator 10 (b'\n'); for 3 rows of
\* 3 columns this is b"123\n456\n789"
Newline == 10
Elem(r, c, cols) == 49 + r * cols + c
RECURSIVE Rows(_, _, _)
Rows(r, rows, cols) ==
    IF r >= rows THEN <<>>
    ELSE [c \in 1..cols |-> Elem(r, c - 1, cols)]
         \o (IF r + 1 < rows THEN <<Newline>> ELSE <<>>)
         \o Rows(r + 1, rows, cols)
Separated(rows, cols, trailing) ==
    Rows(0, rows, cols) \o (IF trailing THEN <<Newline>> ELSE <<>>)

GridInputs ==
    {[ctor |-> c, width |-> w, separator_width |-> sw, data |-> Sequential(n),
      rows |-> 0, cols |-> 0, trailing |-> FALSE] :
        c \in {"new", "from_vec"}, w \in 0..MaxWidth, sw \in 0..MaxWidth,
        n \in 0..MaxLen}
    \cup
    {[ctor |-> "from_separated", width |-> 0, separator_width |-> 0,
      data |-> Separated(h, w, t), rows |-> h, cols |-> w, trailing |-> t] :
        h \in 1..MaxRows, w \in 1..MaxCols, t \in BOOLEAN}

InitGrid ==
    /\ gridIn \in {g \in GridInputs : g.separator_width <= g.width}
    /\ gridView = NoView
    /\ gridOut = NoOut

IdleGrid ==
    /\ gridIn = [ctor |-> "none", width |-> 0, separator_width |-> 0,
                 data |-> <<>>, rows |-> 0, cols |-> 0, trailing |-> FALSE]
    /\ gridView = NoView
    /\ gridOut = NoOut

\* the constructor named by the input runs
GridConstruct ==
    /\ gridView = NoView
    /\ gridView' =
          CASE gridIn.ctor = "new" ->
                  GridNew(gridIn.width, gridIn.separator_width, gridIn.data)
            [] gridIn.ctor = "from_vec" ->
                  GridFromVec(gridIn.width, gridIn.separator_width, gridIn.data)
            [] gridIn.ctor = "from_separated" ->
                  GridFromSeparated(Newline, gridIn.data)
    /\ UNCHANGED <<gridIn, gridOut>>

\* grid[(row, col)] on a constructed view (one index operation per view:
\* indexing does not change the view)
GridIndexCell ==
    /\ gridView.ok
    /\ gridOut = NoOut
    /\ \E row \in 0..MaxLen, col \in 0..MaxWidth :
          gridOut' = [index |-> <<row, col>>, res |-> GridIndex(gridView, <<row, col>>)]
    /\ UNCHANGED <<gridIn, gridView>>

(***************************************************************************)
(* SurroundIterator2d (datastructures/iterators.rs)                        *)
(***************************************************************************)
TOP == 8
RIGHT == 4
BOTTOM == 2
LEFT == 1

\* sides & bit != 0
HasSide(sides, bit) == (sides \div bit) % 2 = 1

NoCell == [some |-> FALSE, cell |-> <<0, 0>>]
Some(r, c) == [some |-> TRUE, cell |-> <<r, c>>]

\* SurroundIterator2d::new comparing the row with size.0 instead of size.0 - 1
SurroundNew_BottomOffByOne(center, size) ==
    LET top == IF center[1] > 0 THEN TOP ELSE 0
        bottom == IF center[1] < size[1] THEN BOTTOM ELSE 0
        left == IF center[2] > 0 THEN LEFT ELSE 0
        right == IF center[2] < size[2] - 1 THEN RIGHT ELSE 0
    IN  [center |-> center, sides |-> top + right + bottom + left, index |-> 0,
         size |-> size]

\* SurroundIterator2d::new; the four flags are distinct bits, so `|` adds them
SurroundNew(center, size) ==
    LET top == IF center[1] > 0 THEN TOP ELSE 0
        bottom == IF center[1] < size[1] - 1 THEN BOTTOM ELSE 0
        left == IF center[2] > 0 THEN LEFT ELSE 0
        right == IF center[2] < size[2] - 1 THEN RIGHT ELSE 0
    IN  [center |-> center, sides |-> top + right + bottom + left, index |-> 0,
         size |-> size]

\* SurroundIterator2d::current
Current(it) ==
    LET r == it.center[1]
        c == it.center[2]
        has(bit) == HasSide(it.sides, bit)
    IN  IF it.index = 1 /\ has(TOP) /\ has(LEFT) THEN Some(r - 1, c - 1)
        ELSE IF it.index = 2 /\ has(TOP) THEN Some(r - 1, c)
        ELSE IF it.index = 3 /\ has(TOP) /\ has(RIGHT) THEN Some(r - 1, c + 1)
        ELSE IF it.index = 4 /\ has(LEFT) THEN Some(r, c - 1)
        ELSE IF it.index = 5 /\ has(RIGHT) THEN Some(r, c + 1)
        ELSE IF it.index = 6 /\ has(BOTTOM) /\ has(LEFT) THEN Some(r + 1, c - 1)
        ELSE IF it.index = 7 /\ has(BOTTOM) THEN Some(r + 1, c)
        ELSE IF it.index = 8 /\ has(BOTTOM) /\ has(RIGHT) THEN Some(r + 1, c + 1)
        ELSE NoCell

\* the loop of Iterator::next: the iterator after the call and the item
RECURSIVE NextLoop(_, _)
NextLoop(it, current) ==
    IF it.index < 9 /\ ~current.some
    THEN LET it2 == [it EXCEPT !.index = it.index + 1]
         IN  NextLoop(it2, Current(it2))
    ELSE [it |-> it, item |-> current]

InitIter ==
    /\ \E h \in 1..MaxSize, w \in 1..MaxSize :
         \E r \in 0..(h - 1), c \in 0..(w - 1) :
            iter = SurroundNew(<<r, c>>, <<h, w>>)
    /\ yielded = <<>>
    /\ exhausted = FALSE

IdleIter ==
    /\ iter = [center |-> <<0, 0>>, sides |-> 0, index |-> 0, size |-> <<0, 0>>]
    /\ yielded = <<>>
    /\ exhausted = FALSE

\* one call of next()
SurroundNext ==
    /\ ~exhausted
    /\ LET n == NextLoop(iter, NoCell) IN
       /\ iter' = n.it
       /\ yielded' = IF n.item.some THEN Append(yielded, n.item.cell) ELSE yielded
       /\ exhausted' = ~n.item.some

(***************************************************************************)
(* NeighborIterator2d (datastructures/iterators.rs; its definition is not  *)
(* among the sources, only its uses are).  From the specification: it      *)
(* enumerates the four orthogonal neighbours of a cell of a bounded grid,  *)
(* clipped at the grid edges, in a fixed order; the order taken here is    *)
(* that of the surround iterator: top, left, right, bottom.                *)
(***************************************************************************)
NeighborOffsets == <<<<-1, 0>>, <<0, -1>>, <<0, 1>>, <<1, 0>>>>

\* the iterator without the clipping at the bottom and right edges
NeighborCurrent_NoClip(it) ==
    IF it.index \in 1..4
    THEN LET r == it.center[1] + NeighborOffsets[it.index][1]
             c == it.center[2] + NeighborOffsets[it.index][2]
         IN  IF r >= 0 /\ c >= 0 THEN Some(r, c) ELSE NoCell
    ELSE NoCell

NeighborNew(center, size) == [center |-> center, sides |-> 0, index |-> 0, size |-> size]

NeighborCurrent(it) ==
    IF it.index \in 1..4
    THEN LET r == it.center[1] + NeighborOffsets[it.index][1]
             c == it.center[2] + NeighborOffsets[it.index][2]
         IN  IF r >= 0 /\ r < it.size[1] /\ c >= 0 /\ c < it.size[2]
             THEN Some(r, c) ELSE NoCell
    ELSE NoCell

RECURSIVE NeighborNextLoop(_, _)
NeighborNextLoop(it, current) ==
    IF it.index < 5 /\ ~current.some
    THEN LET it2 == [it EXCEPT !.index = it.index + 1]
         IN  NeighborNextLoop(it2, NeighborCurrent(it2))
    ELSE [it |-> it, item |-> current]

\* `for neighbor in NeighborIterator2d::new(pos, size)`: all items in order
RECURSIVE Drain(_)
Drain(it) ==
    LET n == NeighborNextLoop(it, NoCell)
    IN  IF n.item.some THEN <<n.item.cell>> \o Drain(n.it) ELSE <<>>
Neighbors(pos, size) == Drain(NeighborNew(pos, size))

InitNeighbor ==
    /\ \E h \in 1..MaxSize, w \in 1..MaxSize :
         \E r \in 0..(h - 1), c \in 0..(w - 1) :
            iter = NeighborNew(<<r, c>>, <<h, w>>)
    /\ yielded = <<>>
    /\ exhausted = FALSE

\* one call of next()
NeighborNext ==
    /\ ~exhausted
    /\ LET n == NeighborNextLoop(iter, NoCell) IN
       /\ iter' = n.it
       /\ yielded' = IF n.item.some THEN Append(yielded, n.item.cell) ELSE yielded
       /\ exhausted' = ~n.item.some

(***************************************************************************)
(* Solver functions: the arguments, the locals at the head of the loop,    *)
(* and the value returned.                                                 *)
(***************************************************************************)
NoResult == [done |-> FALSE, ok |-> FALSE, value |-> 0, err |-> ""]
ResultOk(v) == [done |-> TRUE, ok |-> TRUE, value |-> v, err |-> ""]
ResultErr(msg) == [done |-> TRUE, ok |-> FALSE, value |-> 0, err |-> msg]

IdleFn ==
    /\ args = [fn |-> "none"]
    /\ locals = [fn |-> "none"]
    /\ result = NoResult

\* the elements of a finite set of cells as a sequence, in row-major order
RECURSIVE CellsInOrder(_)
CellsInOrder(S) ==
    IF S = {} THEN <<>>
    ELSE LET c == CHOOSE x \in S :
                    \A y \in S : x[1] < y[1] \/ (x[1] = y[1] /\ x[2] <= y[2])
         IN  <<c>> \o CellsInOrder(S \ {c})

Cells(size) == {<<a, b>> : a \in 0..(size[1] - 1), b \in 0..(size[2] - 1)}

(***************************************************************************)
(* 2024 day 18 (solvers/year2024/day18.rs): solve_part_1_general           *)
(***************************************************************************)
\* self.byte_positions[..n_fallen]
Fallen(a) == {a.byte_positions[i] : i \in 1..a.n_fallen}

\* the arguments: every set of up to MaxBytes cells as the byte list, any
\* prefix of it fallen
InitDay18 ==
    /\ \E g0 \in 1..MaxSide, g1 \in 1..MaxSide :
         \E B \in SUBSET Cells(<<g0, g1>>) :
            /\ Cardinality(B) <= MaxBytes
            /\ \E n \in 0..Cardinality(B) :
                  args = [fn |-> "day18", grid_size |-> <<g0, g1>>,
                          byte_positions |-> CellsInOrder(B), n_fallen |-> n]
    /\ locals = [fn |-> "day18",
                 to_visit |-> <<[steps |-> 0, pos |-> <<0, 0>>]>>,
                 visited |-> Fallen(args) \cup {<<0, 0>>}]
    /\ result = NoResult

\* the `for neighbor in ...` loop over the remaining neighbours
RECURSIVE PushNeighbors(_, _, _)
PushNeighbors(ns, l, steps) ==
    IF ns = <<>> THEN l
    ELSE IF Head(ns) \in l.visited
    THEN PushNeighbors(Tail(ns), l, steps)
    ELSE PushNeighbors(Tail(ns),
                       [l EXCEPT !.visited = @ \cup {Head(ns)},
                                 !.to_visit = Append(@, [steps |-> steps + 1,
                                                         pos |-> Head(ns)])],
                       steps)

\* the loop with the goal test against grid_size instead of grid_size - 1
Day18Step_GoalOffByOne ==
    /\ args.fn = "day18"
    /\ ~result.done
    /\ IF locals.to_visit = <<>>
       THEN /\ result' = ResultErr("No path found")
            /\ UNCHANGED <<args, locals>>
       ELSE LET front == Head(locals.to_visit)
                popped == [locals EXCEPT !.to_visit = Tail(@)]
            IN  IF front.pos = <<args.grid_size[1], args.grid_size[2]>>
                THEN /\ result' = ResultOk(front.steps)
                     /\ locals' = popped
                     /\ UNCHANGED args
                ELSE /\ locals' = PushNeighbors(Neighbors(front.pos, args.grid_size),
                                                popped, front.steps)
                     /\ UNCHANGED <<args, result>>

\* one turn of `while let Some((steps, pos)) = to_visit.pop_front()`, or
\* the end of the loop
Day18Step ==
    /\ args.fn = "day18"
    /\ ~result.done
    /\ IF locals.to_visit = <<>>
       THEN /\ result' = ResultErr("No path found")
            /\ UNCHANGED <<args, locals>>
       ELSE LET front == Head(locals.to_visit)
                popped == [locals EXCEPT !.to_visit = Tail(@)]
            IN  IF front.pos = <<args.grid_size[1] - 1, args.grid_size[2] - 1>>
                THEN /\ result' = ResultOk(front.steps)
                     /\ locals' = popped
                     /\ UNCHANGED args
                ELSE /\ locals' = PushNeighbors(Neighbors(front.pos, args.grid_size),
                                                popped, front.steps)
                     /\ UNCHANGED <<args, result>>

(***************************************************************************)
(* 2023 day 16 (solvers/year2023/day16.rs)                                 *)
(***************************************************************************)
\* b'.', b'/', b'\\', b'|', b'-'
Dot == 46
Slash == 47
Backslash == 92
Pipe == 124
Dash == 45

\* push_dir
PushDir(queue, grid, dir, tile_idx) ==
    CASE dir = "Left" ->
            IF tile_idx[2] > 0
            THEN Append(queue, <<"Left", <<tile_idx[1], tile_idx[2] - 1>>>>)
            ELSE queue
      [] dir = "Right" ->
            IF tile_idx[2] < Width(grid) - 1
            THEN Append(queue, <<"Right", <<tile_idx[1], tile_idx[2] + 1>>>>)
            ELSE queue
      [] dir = "Up" ->
            IF tile_idx[1] > 0
            THEN Append(queue, <<"Up", <<tile_idx[1] - 1, tile_idx[2]>>>>)
            ELSE queue
      [] dir = "Down" ->
            IF tile_idx[1] < Height(grid) - 1
            THEN Append(queue, <<"Down", <<tile_idx[1] + 1, tile_idx[2]>>>>)
            ELSE queue

\* the `match (dir, tile)` of count_energized_tiles
PushNext(queue, grid, dir, tile, tile_idx) ==
    IF <<dir, tile>> \in {<<"Left", Backslash>>, <<"Right", Slash>>}
    THEN PushDir(queue, grid, "Up", tile_idx)
    ELSE IF <<dir, tile>> \in {<<"Right", Backslash>>, <<"Left", Slash>>}
    THEN PushDir(queue, grid, "Down", tile_idx)
    ELSE IF <<dir, tile>> \in {<<"Up", Backslash>>, <<"Down", Slash>>}
    THEN PushDir(queue, grid, "Left", tile_idx)
    ELSE IF <<dir, tile>> \in {<<"Down", Backslash>>, <<"Up", Slash>>}
    THEN PushDir(queue, grid, "Right", tile_idx)
    ELSE IF <<dir, tile>> \in {<<"Left", Pipe>>, <<"Right", Pipe>>}
    THEN PushDir(PushDir(queue, grid, "Up", tile_idx), grid, "Down", tile_idx)
    ELSE IF <<dir, tile>> \in {<<"Up", Dash>>, <<"Down", Dash>>}
    THEN PushDir(PushDir(queue, grid, "Left", tile_idx), grid, "Right", tile_idx)
    ELSE PushDir(queue, grid, dir, tile_idx)

\* the loop `while let Some((dir, tile_idx)) = queue.pop()` with the sets
\* energized and seen, which are locals of the call
RECURSIVE EnergizeLoop(_, _, _, _)
EnergizeLoop(grid, queue, seen, energized) ==
    IF queue = <<>> THEN Cardinality(energized)
    ELSE LET top == queue[Len(queue)]
             rest == SubSeq(queue, 1, Len(queue) - 1)
         IN  IF top \in seen
             THEN EnergizeLoop(grid, rest, seen, energized)
             ELSE EnergizeLoop(grid,
                               PushNext(rest, grid, top[1],
                                        GridIndex(grid, top[2]).val, top[2]),
                               seen \cup {top},
                               energized \cup {top[2]})

\* count_energized_tiles
CountEnergizedTiles(grid, start) == EnergizeLoop(grid, <<start>>, {}, {})

\* (0..width).flat_map(|i| [(Up, (height - 1, i)), (Down, (0, i))])
RECURSIVE ColumnStarts(_, _)
ColumnStarts(grid, i) ==
    IF i >= Width(grid) THEN <<>>
    ELSE <<<<"Up", <<Height(grid) - 1, i>>>>, <<"Down", <<0, i>>>>>>
         \o ColumnStarts(grid, i + 1)

\* (0..height).flat_map(|i| [(Left, (i, width - 1)), (Right, (i, 0))])
RECURSIVE RowStarts(_, _)
RowStarts(grid, i) ==
    IF i >= Height(grid) THEN <<>>
    ELSE <<<<"Left", <<i, Width(grid) - 1>>>>, <<"Right", <<i, 0>>>>>>
         \o RowStarts(grid, i + 1)

\* solve_part_2: possible_starts
PossibleStarts(grid) == ColumnStarts(grid, 0) \o RowStarts(grid, 0)

\* Option<usize> of the partial maxima
NoneCount == [some |-> FALSE, val |-> 0]
SomeCount(v) == [some |-> TRUE, val |-> v]

\* Ord::max over Option<usize>: None is below every Some
OptionMax(a, b) ==
    IF ~a.some THEN b
    ELSE IF ~b.some THEN a
    ELSE IF a.val >= b.val THEN a ELSE b

\* the sequential map(..).max() over the starts lo..hi of one piece
RECURSIVE FoldMax(_, _, _, _)
FoldMax(grid, starts, lo, hi) ==
    IF lo > hi THEN NoneCount
    ELSE OptionMax(SomeCount(CountEnergizedTiles(grid, starts[lo])),
                   FoldMax(grid, starts, lo + 1, hi))

\* the puzzle text: rows of tiles, each ended by a newline
RECURSIVE TileRows(_, _, _, _)
TileRows(r, h, w, tile) ==
    IF r >= h THEN <<>>
    ELSE [c \in 1..w |-> tile[<<r, c - 1>>]] \o <<Newline>> \o TileRows(r + 1, h, w, tile)

Piece(lo, hi) == [lo |-> lo, hi |-> hi, done |-> FALSE, max |-> NoneCount]

\* grids of up to MaxBeamSide rows and columns with up to MaxMirrors
\* mirrors and splitters
InitDay16 ==
    /\ \E h \in 1..MaxBeamSide, w \in 1..MaxBeamSide :
         \E M \in SUBSET Cells(<<h, w>>) :
            /\ Cardinality(M) <= MaxMirrors
            /\ \E kind \in [M -> {Slash, Backslash, Pipe, Dash}] :
                  LET tile == [c \in Cells(<<h, w>>) |->
                                  IF c \in M THEN kind[c] ELSE Dot]
                  IN  args = [fn |-> "day16",
                              grid |-> GridFromSeparated(Newline,
                                                         TileRows(0, h, w, tile))]
    /\ locals = [fn |-> "day16",
                 possible_starts |-> PossibleStarts(args.grid),
                 pieces |-> <<Piece(1, Len(PossibleStarts(args.grid)))>>,
                 splits |-> 0]
    /\ result = NoResult

ReplacePiece(pieces, i, new) ==
    SubSeq(pieces, 1, i - 1) \o new \o SubSeq(pieces, i + 1, Len(pieces))

\* into_par_iter: a piece of the vector is split in two halves that may run
\* on different threads
Day16Split ==
    /\ args.fn = "day16" /\ ~result.done
    /\ locals.splits < MaxSplits
    /\ \E i \in 1..Len(locals.pieces) :
         LET p == locals.pieces[i]
             mid == p.lo + (p.hi - p.lo + 1) \div 2
         IN  /\ ~p.done /\ p.hi > p.lo
             /\ locals' = [locals EXCEPT
                              !.pieces = ReplacePiece(@, i,
                                            <<Piece(p.lo, mid - 1), Piece(mid, p.hi)>>),
                              !.splits = @ + 1]
    /\ UNCHANGED <<args, result>>

\* a thread maps the starts of one piece and keeps their maximum
Day16Fold ==
    /\ args.fn = "day16" /\ ~result.done
    /\ \E i \in 1..Len(locals.pieces) :
         LET p == locals.pieces[i] IN
         /\ ~p.done
         /\ locals' = [locals EXCEPT
                          !.pieces[i] = [p EXCEPT
                              !.done = TRUE,
                              !.max = FoldMax(args.grid, locals.possible_starts,
                                              p.lo, p.hi)]]
    /\ UNCHANGED <<args, result>>

\* the reduction keeping the left partial result instead of the larger one
Day16Reduce_KeepLeft ==
    /\ args.fn = "day16" /\ ~result.done
    /\ \E i \in 1..(Len(locals.pieces) - 1) :
         LET p == locals.pieces[i]
             q == locals.pieces[i + 1]
         IN  /\ p.done /\ q.done
             /\ locals' = [locals EXCEPT
                              !.pieces = ReplacePiece(ReplacePiece(@, i + 1, <<>>), i,
                                            <<[lo |-> p.lo, hi |-> q.hi, done |-> TRUE,
                                               max |-> p.max]>>)]
    /\ UNCHANGED <<args, result>>

\* max(): the partial maxima of two finished neighbouring pieces are
\* combined
Day16Reduce ==
    /\ args.fn = "day16" /\ ~result.done
    /\ \E i \in 1..(Len(locals.pieces) - 1) :
         LET p == locals.pieces[i]
             q == locals.pieces[i + 1]
         IN  /\ p.done /\ q.done
             /\ locals' = [locals EXCEPT
                              !.pieces = ReplacePiece(ReplacePiece(@, i + 1, <<>>), i,
                                            <<[lo |-> p.lo, hi |-> q.hi, done |-> TRUE,
                                               max |-> OptionMax(p.max, q.max)]>>)]
    /\ UNCHANGED <<args, result>>

\* .unwrap_or_default()
Day16Return ==
    /\ args.fn = "day16" /\ ~result.done
    /\ Len(locals.pieces) = 1 /\ locals.pieces[1].done
    /\ result' = ResultOk(IF locals.pieces[1].max.some
                          THEN locals.pieces[1].max.val ELSE 0)
    /\ UNCHANGED <<args, locals>>

(***************************************************************************)
(* 2025 day 1 (solvers/year2025/day1.rs): solve_part_2                     *)
(***************************************************************************)
\* parsed instructions: L<n> is -n, R<n> is n
Rotations == {-200, -150, -100, -50, -49, -1, 0, 1, 49, 50, 100, 150, 200}

\* while dial < 0 { dial += 100; zero_count += 1; }
RECURSIVE WhileNegative(_)
WhileNegative(acc) ==
    IF acc.dial < 0
    THEN WhileNegative([dial |-> acc.dial + 100, zero_count |-> acc.zero_count + 1])
    ELSE acc

\* while dial > 99 { dial -= 100; zero_count += 1; }
RECURSIVE WhileAbove99(_)
WhileAbove99(acc) ==
    IF acc.dial > 99
    THEN WhileAbove99([dial |-> acc.dial - 100, zero_count |-> acc.zero_count + 1])
    ELSE acc

\* the closure of the fold
FoldRotation(acc, value) ==
    LET a1 == IF acc.dial = 0 /\ value < 0
              THEN [acc EXCEPT !.zero_count = @ - 1] ELSE acc
        a2 == [a1 EXCEPT !.dial = @ + value]
        a3 == WhileAbove99(WhileNegative(a2))
    IN  IF a3.dial = 0 /\ value < 0
        THEN [a3 EXCEPT !.zero_count = @ + 1] ELSE a3

InitDay1 ==
    /\ \E instructions \in SeqsUpTo(Rotations, MaxRotations) :
          args = [fn |-> "day1", instructions |-> instructions]
    /\ locals = [fn |-> "day1", next |-> 1, acc |-> [dial |-> 50, zero_count |-> 0]]
    /\ result = NoResult

\* the fold takes the next instruction
Day1Fold ==
    /\ args.fn = "day1" /\ ~result.done
    /\ locals.next <= Len(args.instructions)
    /\ locals' = [locals EXCEPT
                     !.acc = FoldRotation(@, args.instructions[locals.next]),
                     !.next = @ + 1]
    /\ UNCHANGED <<args, result>>

\* after the fold: `if dial == 0 { password += 1; }` and the result
Day1Return ==
    /\ args.fn = "day1" /\ ~result.done
    /\ locals.next > Len(args.instructions)
    /\ result' = ResultOk(IF locals.acc.dial = 0
                          THEN locals.acc.zero_count + 1
                          ELSE locals.acc.zero_count)
    /\ UNCHANGED <<args, locals>>

(***************************************************************************)
(* 2025 day 10 (solvers/year2025/day10.rs): count_btn_presses              *)
(***************************************************************************)
\* `^` on Indicators (u16), bit by bit
RECURSIVE Xor(_, _)
Xor(a, b) ==
    IF a = 0 THEN b
    ELSE IF b = 0 THEN a
    ELSE (((a % 2) + (b % 2)) % 2) + 2 * Xor(a \div 2, b \div 2)

\* Option<usize>::min over the Some values that filter_map keeps
MinOfSome(S) ==
    IF S = {} THEN NoneCount
    ELSE SomeCount(CHOOSE v \in S : \A w \in S : v <= w)

\* count_btn_presses; the buttons are visited in ascending order and every
\* visited button is removed from next_buttons before the recursive call
RECURSIVE CountBtnPresses(_, _, _)
CountBtnPresses(target, current, buttons) ==
    IF Cardinality(buttons) < 8 /\ target = current
    THEN SomeCount(0)
    ELSE LET sub(button) ==
                 CountBtnPresses(target, Xor(current, button),
                                 {b \in buttons : b > button})
         IN  MinOfSome({sub(button).val + 1 :
                           button \in {b \in buttons : sub(b).some}})

\* machines of up to MaxLights lights whose buttons are any set of the
\* toggle masks 1..MaxButtonValue
InitDay10 ==
    /\ \E lights \in 0..(2 ^ MaxLights - 1), buttons \in SUBSET (1..MaxButtonValue) :
          args = [fn |-> "day10", lights |-> lights, buttons |-> buttons]
    /\ locals = [fn |-> "day10"]
    /\ result = NoResult

\* solve_part_1: count_btn_presses(machine.lights, 0, &machine.buttons)
Day10Count ==
    /\ args.fn = "day10" /\ ~result.done
    /\ LET r == CountBtnPresses(args.lights, 0, args.buttons) IN
       result' = IF r.some THEN ResultOk(r.val) ELSE ResultErr("None")
    /\ UNCHANGED <<args, locals>>

(***************************************************************************)
(* 2024 day 16 (solvers/year2024/day16.rs): find_lowest_score              *)
(***************************************************************************)
\* b'#', b'S', b'E'
Wall == 35
StartTile == 83
EndTile == 69

\* #[derive(Ord)] on Direction: the order of the variants
DirRank(dir) ==
    CASE dir = "North" -> 0 [] dir = "South" -> 1 [] dir = "East" -> 2 [] dir = "West" -> 3

Delta(dir) ==
    CASE dir = "North" -> <<-1, 0>> [] dir = "South" -> <<1, 0>>
      [] dir = "East" -> <<0, 1>> [] dir = "West" -> <<0, -1>>

Lturn(dir) ==
    CASE dir = "North" -> "West" [] dir = "South" -> "East"
      [] dir = "East" -> "North" [] dir = "West" -> "South"

Rturn(dir) ==
    CASE dir = "North" -> "East" [] dir = "South" -> "West"
      [] dir = "East" -> "South" [] dir = "West" -> "North"

\* next_pos: checked_add_signed, then the bounds test
NextPos(grid, pos, dir) ==
    LET r == pos[1] + Delta(dir)[1]
        c == pos[2] + Delta(dir)[2]
    IN  IF r >= 0 /\ c >= 0 /\ r < Height(grid) /\ c < Width(grid)
        THEN Some(r, c) ELSE NoCell

\* the derived order of the heap entries
\* (Reverse(score), pos, dir, (prev pos, prev dir)), as a tuple of numbers
HeapKey(e) ==
    <<0 - e.score, e.pos[1], e.pos[2], DirRank(e.dir),
      e.prev[1][1], e.prev[1][2], DirRank(e.prev[2])>>

RECURSIVE LexLess(_, _)
LexLess(a, b) ==
    IF a = <<>> THEN FALSE
    ELSE IF Head(a) # Head(b) THEN Head(a) < Head(b)
    ELSE LexLess(Tail(a), Tail(b))

\* BinaryHeap::pop: the index of a greatest entry
PeekIndex(heap) ==
    CHOOSE i \in 1..Len(heap) :
        \A j \in 1..Len(heap) : ~LexLess(HeapKey(heap[i]), HeapKey(heap[j]))

RemoveAt(seq, i) == SubSeq(seq, 1, i - 1) \o SubSeq(seq, i + 1, Len(seq))

Entry(score, pos, dir, prev) == [score |-> score, pos |-> pos, dir |-> dir, prev |-> prev]

MapPut(map, key, value) ==
    [k \in DOMAIN map \cup {key} |-> IF k = key THEN value ELSE map[k]]

\* the backtracking loop over to_backtrack (a Vec used as a stack)
RECURSIVE Backtrack(_, _, _)
Backtrack(to_backtrack, paths, reachable_from) ==
    IF to_backtrack = <<>> THEN paths
    ELSE LET b == to_backtrack[Len(to_backtrack)]
             rest == SubSeq(to_backtrack, 1, Len(to_backtrack) - 1)
             paths2 == paths \cup {b}
             notSeen(p) == p \notin paths2
         IN  Backtrack(rest \o SelectSeq(reachable_from[b].prevs, notSeen),
                       paths2, reachable_from)

\* the three pushes at the end of the loop body
PushMoves(heap, grid, score, pos, dir) ==
    LET h1 == IF NextPos(grid, pos, Lturn(dir)).some
              THEN Append(heap, Entry(score + 1000, pos, Lturn(dir), <<pos, dir>>))
              ELSE heap
        h2 == IF NextPos(grid, pos, Rturn(dir)).some
              THEN Append(h1, Entry(score + 1000, pos, Rturn(dir), <<pos, dir>>))
              ELSE h1
    IN  IF NextPos(grid, pos, dir).some
        THEN Append(h2, Entry(score + 1, NextPos(grid, pos, dir).cell, dir, <<pos, dir>>))
        ELSE h2

\* a maze: an inner area of up to MaxMazeSide rows and columns inside a
\* border of walls, with S, E and up to MaxWalls inner walls
InitMaze ==
    /\ \E h \in 1..MaxMazeSide, w \in 1..MaxMazeSide :
         LET inner == {<<r, c>> : r \in 1..h, c \in 1..w} IN
         \E st \in inner : \E en \in inner \ {st} :
            \E W \in SUBSET (inner \ {st, en}) :
               /\ Cardinality(W) <= MaxWalls
               /\ LET tile == [c \in Cells(<<h + 2, w + 2>>) |->
                                  IF c = st THEN StartTile
                                  ELSE IF c = en THEN EndTile
                                  ELSE IF c \in inner \ W THEN Dot
                                  ELSE Wall]
                  IN  args = [fn |-> "maze",
                              grid |-> GridFromSeparated(Newline,
                                          TileRows(0, h + 2, w + 2, tile)),
                              start_pos |-> st]
    /\ locals = [fn |-> "maze",
                 to_visit |-> <<Entry(0, args.start_pos, "East",
                                      <<args.start_pos, "East">>)>>,
                 reachable_from |-> [k \in {} |-> 0],
                 score |-> 0]
    /\ result = NoResult

\* one turn of `while let Some(..) = to_visit.pop()`, or the panic after
\* the loop
MazeStep ==
    /\ args.fn = "maze" /\ ~result.done
    /\ IF locals.to_visit = <<>>
       THEN /\ result' = ResultErr("no path to exit")
            /\ UNCHANGED <<args, locals>>
       ELSE LET i == PeekIndex(locals.to_visit)
                e == locals.to_visit[i]
                heap == RemoveAt(locals.to_visit, i)
                key == <<e.pos, e.dir>>
                tileAt == GridIndex(args.grid, e.pos).val
                known == key \in DOMAIN locals.reachable_from
                best == IF known THEN locals.reachable_from[key]
                        ELSE [score |-> -1, prevs |-> <<>>]
                \* score.cmp(best_score); -1 stands for usize::MAX
                less == best.score = -1 \/ e.score < best.score
                equal == best.score # -1 /\ e.score = best.score
                rf == IF less
                      THEN MapPut(locals.reachable_from, key,
                                  [score |-> e.score, prevs |-> <<e.prev>>])
                      ELSE IF equal
                      THEN MapPut(locals.reachable_from, key,
                                  [best EXCEPT !.prevs = Append(@, e.prev)])
                      ELSE MapPut(locals.reachable_from, key, best)
            IN  IF tileAt = Wall
                THEN /\ locals' = [locals EXCEPT !.to_visit = heap]
                     /\ UNCHANGED <<args, result>>
                ELSE IF ~less /\ ~equal
                THEN /\ locals' = [locals EXCEPT !.to_visit = heap,
                                                 !.reachable_from = rf]
                     /\ UNCHANGED <<args, result>>
                ELSE IF tileAt = EndTile
                THEN /\ locals' = [locals EXCEPT !.to_visit = heap,
                                                 !.reachable_from = rf,
                                                 !.score = e.score]
                     /\ result' = ResultOk(Cardinality(
                                     {p[1] : p \in Backtrack(<<key>>, {}, rf)}))
                     /\ UNCHANGED args
                ELSE /\ locals' = [locals EXCEPT
                                      !.to_visit = PushMoves(heap, args.grid, e.score,
                                                             e.pos, e.dir),
                                      !.reachable_from = rf]
                     /\ UNCHANGED <<args, result>>

(***************************************************************************)
(* 2025 day 8 (solvers/year2025/day8.rs): make_connections                 *)
(***************************************************************************)
DistSq(a, b) ==
    (a[1] - b[1]) * (a[1] - b[1]) + (a[2] - b[2]) * (a[2] - b[2])
        + (a[3] - b[3]) * (a[3] - b[3])

\* the entries (Reverse(dist_sq), (i, j)) of the heap, for all i < j;
\* indices count from 0 as in the code
DistanceHeap(junction_boxes) ==
    {[dist |-> DistSq(junction_boxes[i + 1], junction_boxes[j + 1]), a |-> i, b |-> j] :
        <<i, j>> \in {p \in (0..(Len(junction_boxes) - 1)) \X (0..(Len(junction_boxes) - 1)) :
                        p[1] < p[2]}}

\* the derived order of (Reverse(dist_sq), (i, j))
PairKey(e) == <<0 - e.dist, e.a, e.b>>

\* BinaryHeap::pop: the greatest entry
HeapTop(heap) ==
    CHOOSE e \in heap : \A o \in heap : ~LexLess(PairKey(e), PairKey(o))

\* sort(), then iter().rev().take(3).product()
RECURSIVE ProductOfLargest(_, _)
ProductOfLargest(sizes, k) ==
    IF k = 0 \/ sizes = <<>> THEN 1
    ELSE LET i == CHOOSE x \in 1..Len(sizes) : \A y \in 1..Len(sizes) : sizes[y] <= sizes[x]
         IN  sizes[i] * ProductOfLargest(RemoveAt(sizes, i), k - 1)

\* circuit_sizes: one counter per group id below next_group_id, counter 0
\* included, counting the boxes that carry the id
CircuitSizes(group_assignments, next_group_id) ==
    [g \in 1..next_group_id |->
        Cardinality({i \in 1..Len(group_assignments) :
                        group_assignments[i] # 0 /\ group_assignments[i] = g - 1})]

InitDay8 ==
    /\ \E len \in 2..MaxBoxes :
         \E boxes \in [1..len -> (0..MaxCoordinate) \X (0..MaxCoordinate) \X (0..MaxCoordinate)] :
            \E n \in 0..MaxConnections :
               args = [fn |-> "connections", junction_boxes |-> boxes, n |-> n]
    /\ locals = [fn |-> "connections",
                 distance_heap |-> DistanceHeap(args.junction_boxes),
                 \* None is 0
                 group_assignments |-> [i \in 1..Len(args.junction_boxes) |-> 0],
                 next_group_id |-> 1,
                 round |-> 0,
                 connected |-> {}]
    /\ result = NoResult

\* one turn of `for _ in 0..n`
Day8Connect ==
    /\ args.fn = "connections" /\ ~result.done
    /\ locals.round < args.n
    /\ IF locals.distance_heap = {}
       THEN \* distance_heap.pop().unwrap()
            /\ result' = ResultErr("panic")
            /\ UNCHANGED <<args, locals>>
       ELSE LET e == HeapTop(locals.distance_heap)
                ga == locals.group_assignments
                group_a == ga[e.a + 1]
                group_b == ga[e.b + 1]
                popped == [locals EXCEPT !.distance_heap = @ \ {e},
                                         !.round = @ + 1,
                                         !.connected = @ \cup {{e.a, e.b}}]
            IN  /\ locals' =
                     IF group_a = 0 /\ group_b = 0
                     THEN [popped EXCEPT
                             !.group_assignments = [ga EXCEPT ![e.a + 1] = locals.next_group_id,
                                                              ![e.b + 1] = locals.next_group_id],
                             !.next_group_id = @ + 1]
                     ELSE IF group_b = 0
                     THEN [popped EXCEPT !.group_assignments = [ga EXCEPT ![e.b + 1] = group_a]]
                     ELSE IF group_a = 0
                     THEN [popped EXCEPT !.group_assignments = [ga EXCEPT ![e.a + 1] = group_b]]
                     ELSE [popped EXCEPT
                             !.group_assignments =
                                 [i \in DOMAIN ga |-> IF ga[i] = group_b THEN group_a ELSE ga[i]]]
                /\ UNCHANGED <<args, result>>

\* after the loop: circuit_sizes and the product
Day8Return ==
    /\ args.fn = "connections" /\ ~result.done
    /\ locals.round = args.n
    /\ result' = ResultOk(ProductOfLargest(
                     CircuitSizes(locals.group_assignments, locals.next_group_id), 3))
    /\ UNCHANGED <<args, locals>>

(***************************************************************************)
(* 2024 day 23 (solvers/year2024/day23.rs): solve_part_2                   *)
(***************************************************************************)
\* b'a' and b','
LetterA == 97
Comma == 44

\* the graph has 26 * 26 vertices in the code; the model has MaxComputers,
\* the computers "aa", "ab", ...
ConnectionIndex(num_vertices, from, to) == from * num_vertices + to

\* Graph::new followed by add_edge for every line
GraphOf(num_vertices, edges) ==
    [num_vertices |-> num_vertices,
     adjacency |-> [i \in 0..(num_vertices * num_vertices - 1) |->
                      \E e \in edges :
                         \/ i = ConnectionIndex(num_vertices, e[1], e[2])
                         \/ i = ConnectionIndex(num_vertices, e[2], e[1])]]

HasEdge(graph, from, to) ==
    graph.adjacency[ConnectionIndex(graph.num_vertices, from, to)]

ComputerName(index) == <<(index \div 26) + LetterA, (index % 26) + LetterA>>

\* the inner loop `for node in seed_node + 1..26 * 26`
RECURSIVE GrowClique(_, _, _)
GrowClique(graph, clique, node) ==
    IF node >= graph.num_vertices THEN clique
    ELSE IF \A c_node \in clique : HasEdge(graph, c_node, node)
         THEN GrowClique(graph, clique \cup {node}, node + 1)
         ELSE GrowClique(graph, clique, node + 1)

\* sort_unstable() of the names, then join(",")
RECURSIVE JoinNames(_)
JoinNames(names) ==
    IF names = {} THEN <<>>
    ELSE LET first == CHOOSE n \in names : \A m \in names : ~LexLess(m, n)
         IN  IF names = {first} THEN first
             ELSE first \o <<Comma>> \o JoinNames(names \ {first})

InitDay23 ==
    /\ \E edges \in SUBSET {e \in (0..(MaxComputers - 1)) \X (0..(MaxComputers - 1)) :
                              e[1] < e[2]} :
          args = [fn |-> "clique", graph |-> GraphOf(MaxComputers, edges)]
    /\ locals = [fn |-> "clique", largest_clique |-> {}, seed_node |-> 0]
    /\ result = NoResult

\* one turn of `for seed_node in 0..26 * 26`
Day23Seed ==
    /\ args.fn = "clique" /\ ~result.done
    /\ locals.seed_node < args.graph.num_vertices
    /\ LET clique == GrowClique(args.graph, {locals.seed_node}, locals.seed_node + 1)
       IN  locals' = [locals EXCEPT
                        !.largest_clique =
                            IF Cardinality(clique) > Cardinality(@) THEN clique ELSE @,
                        !.seed_node = @ + 1]
    /\ UNCHANGED <<args, result>>

Day23Return ==
    /\ args.fn = "clique" /\ ~result.done
    /\ locals.seed_node = args.graph.num_vertices
    /\ result' = ResultOk(JoinNames({ComputerName(c) : c \in locals.largest_clique}))
    /\ UNCHANGED <<args, locals>>

(***************************************************************************)
(* 2024 day 9 (solvers/year2024/day9.rs): solve_part_2                     *)
(***************************************************************************)
\* MapEntry::from(index) == MapEntry::FreeSpace
IsFreeSpace(index) == index % 2 = 1

Idx2Id(index) == index \div 2

Gauss(n) == (n * n + n) \div 2

\* disk_map[i], indices counting from 0
MapAt(disk_map, i) == disk_map[i + 1]

\* ((i + 1)..end_pointer + 1).step_by(2).rev(), as the sequence of its items
RECURSIVE StepBy2Rev(_, _)
StepBy2Rev(from, to) ==
    IF from >= to THEN <<>>
    ELSE Append(StepBy2Rev(from + 2, to), from)

\* as FillFreeSpace, visiting the files from the left (without .rev())
RECURSIVE FillFreeSpace_Forward(_, _, _)
FillFreeSpace_Forward(disk_map, st, js) ==
    IF js = <<>> THEN st
    ELSE LET j == js[Len(js)]
             rest == SubSeq(js, 1, Len(js) - 1)
         IN  IF ~st.disk_moved[j] /\ MapAt(disk_map, j) <= st.available
             THEN LET chunksize == MapAt(disk_map, j)
                      start == st.physical_index - 1
                      end == st.physical_index + chunksize - 1
                      st2 == [disk_moved |-> [st.disk_moved EXCEPT ![j] = TRUE],
                              physical_index |-> st.physical_index + chunksize,
                              checksum |-> st.checksum
                                             + Idx2Id(j) * (Gauss(end) - Gauss(start)),
                              available |-> st.available - chunksize]
                  IN  IF st2.available = 0 THEN st2
                      ELSE FillFreeSpace_Forward(disk_map, st2, rest)
             ELSE FillFreeSpace_Forward(disk_map, st, rest)

\* the loop over j of the FreeSpace arm
RECURSIVE FillFreeSpace(_, _, _)
FillFreeSpace(disk_map, st, js) ==
    IF js = <<>> THEN st
    ELSE LET j == Head(js) IN
         IF ~st.disk_moved[j] /\ MapAt(disk_map, j) <= st.available
         THEN LET chunksize == MapAt(disk_map, j)
                  start == st.physical_index - 1
                  end == st.physical_index + chunksize - 1
                  st2 == [disk_moved |-> [st.disk_moved EXCEPT ![j] = TRUE],
                          physical_index |-> st.physical_index + chunksize,
                          checksum |-> st.checksum
                                         + Idx2Id(j) * (Gauss(end) - Gauss(start)),
                          available |-> st.available - chunksize]
              IN  IF st2.available = 0 THEN st2
                  ELSE FillFreeSpace(disk_map, st2, Tail(js))
         ELSE FillFreeSpace(disk_map, st, Tail(js))

\* disk maps of up to MaxMapLen digits: files of 1..MaxDigit blocks, free
\* spans of 0..MaxDigit blocks
DiskMaps ==
    UNION {{m \in [1..len -> 0..MaxDigit] : \A k \in 1..len : (k % 2 = 1) => m[k] >= 1} :
              len \in 1..MaxMapLen}

InitDay9 ==
    /\ \E m \in DiskMaps : args = [fn |-> "defrag", disk_map |-> m]
    /\ locals = [fn |-> "defrag",
                 disk_moved |-> [k \in 0..(Len(args.disk_map) - 1) |-> FALSE],
                 end_pointer |-> IF IsFreeSpace(Len(args.disk_map) - 1)
                                 THEN Len(args.disk_map) - 2
                                 ELSE Len(args.disk_map) - 1,
                 physical_index |-> MapAt(args.disk_map, 0),
                 checksum |-> 0,
                 i |-> 1]
    /\ result = NoResult

\* one turn of `for i in 1..disk_map.len()`
Day9Step ==
    /\ args.fn = "defrag" /\ ~result.done
    /\ locals.i < Len(args.disk_map)
    /\ LET i == locals.i
           size == MapAt(args.disk_map, i)
       IN  IF ~IsFreeSpace(i)
           THEN IF locals.disk_moved[i]
                THEN locals' = [locals EXCEPT !.physical_index = @ + size, !.i = i + 1]
                ELSE LET start == locals.physical_index - 1
                         end == locals.physical_index + size - 1
                     IN  locals' = [locals EXCEPT
                                      !.physical_index = @ + size,
                                      !.checksum = @ + Idx2Id(i) * (Gauss(end) - Gauss(start)),
                                      !.i = i + 1]
           ELSE LET st == FillFreeSpace(args.disk_map,
                                        [disk_moved |-> locals.disk_moved,
                                         physical_index |-> locals.physical_index,
                                         checksum |-> locals.checksum,
                                         available |-> size],
                                        StepBy2Rev(i + 1, locals.end_pointer + 1))
                IN  locals' = [locals EXCEPT
                                 !.disk_moved = st.disk_moved,
                                 !.physical_index = st.physical_index + st.available,
                                 !.checksum = st.checksum,
                                 !.i = i + 1]
    /\ UNCHANGED <<args, result>>

Day9Return ==
    /\ args.fn = "defrag" /\ ~result.done
    /\ locals.i >= Len(args.disk_map)
    /\ result' = ResultOk(locals.checksum)
    /\ UNCHANGED <<args, locals>>

(***************************************************************************)
(* 2024 day 15 (solvers/year2024/day15.rs): push_wide, solve_part_2        *)
(***************************************************************************)
\* b'O', b'@', b'[', b']'
Crate == 79
Robot == 64
BoxLeft == 91
BoxRight == 93

Movements == {"Up", "Down", "Left", "Right"}

\* Direction::delta
MoveDelta(direction) ==
    CASE direction = "Up" -> <<-1, 0>> [] direction = "Down" -> <<1, 0>>
      [] direction = "Left" -> <<0, -1>> [] direction = "Right" -> <<0, 1>>

\* IndexMut<(usize, usize)>::index_mut followed by the assignment
GridSet(view, index, value) ==
    [view EXCEPT !.data[view.width * index[1] + index[2] + 1] = value]

Tile(view, index) == GridIndex(view, index).val

Shift(pos, delta) == <<pos[1] + delta[1], pos[2] + delta[2]>>

\* as PushWide, moving in a vertical push only the half that is pushed
RECURSIVE PushWide_OneHalf(_, _, _, _)
PushWide_OneHalf(grid, pos, direction, dry_run) ==
    LET d == MoveDelta(direction)
        push_target == Shift(pos, d)
        at == Tile(grid, push_target)
    IN  IF at = Wall THEN [ok |-> FALSE, grid |-> grid]
        ELSE IF at = BoxLeft \/ at = BoxRight
        THEN LET r == PushWide_OneHalf(grid, push_target, direction, dry_run)
             IN  IF r.ok /\ ~dry_run
                 THEN [ok |-> TRUE,
                       grid |-> GridSet(GridSet(r.grid, Shift(push_target, d),
                                                Tile(r.grid, push_target)),
                                        push_target, Dot)]
                 ELSE r
        ELSE [ok |-> TRUE, grid |-> grid]

\* push_wide: the value returned and the grid it leaves
RECURSIVE PushWide(_, _, _, _)
PushWide(grid, pos, direction, dry_run) ==
    LET d == MoveDelta(direction)
        push_target == Shift(pos, d)
        at == Tile(grid, push_target)
    IN  IF at = Wall THEN [ok |-> FALSE, grid |-> grid]
        ELSE IF at = BoxLeft \/ at = BoxRight
        THEN IF direction = "Right" \/ direction = "Left"
             THEN LET r == PushWide(grid, push_target, direction, dry_run)
                  IN  IF r.ok /\ ~dry_run
                      THEN [ok |-> TRUE,
                            grid |-> GridSet(GridSet(r.grid, Shift(push_target, d),
                                                     Tile(r.grid, push_target)),
                                             push_target, Dot)]
                      ELSE r
             ELSE LET delta_other_half == IF at = BoxLeft THEN 1 ELSE -1
                      neighbor_target == Shift(push_target, <<0, delta_other_half>>)
                      r1 == PushWide(grid, push_target, direction, dry_run)
                      r2 == IF r1.ok
                            THEN PushWide(r1.grid, neighbor_target, direction, dry_run)
                            ELSE r1
                  IN  IF r2.ok /\ ~dry_run
                      THEN LET g1 == GridSet(r2.grid, Shift(push_target, d),
                                             Tile(r2.grid, push_target))
                               g2 == GridSet(g1, push_target, Dot)
                               g3 == GridSet(g2, Shift(push_target, <<d[1], d[2] + delta_other_half>>),
                                             Tile(g2, neighbor_target))
                           IN  [ok |-> TRUE, grid |-> GridSet(g3, neighbor_target, Dot)]
                      ELSE r2
        ELSE [ok |-> TRUE, grid |-> grid]

\* the flat_map of solve_part_2 over the cells of the grid
Widened(data) ==
    [k \in 1..(2 * Len(data)) |->
        LET c == data[(k + 1) \div 2]
        IN  IF c = Crate THEN (IF k % 2 = 1 THEN BoxLeft ELSE BoxRight)
            ELSE IF c = Robot THEN (IF k % 2 = 1 THEN Robot ELSE Dot)
            ELSE c]

\* find_starting_pos: position of b'@' in iter(), then nth_index
FindStartingPos(grid) ==
    LET n == CHOOSE k \in 0..(Len(grid.data) - 1) :
                /\ grid.data[k + 1] = Robot
                /\ \A j \in 0..(k - 1) : grid.data[j + 1] # Robot
    IN  <<n \div Width(grid), n % Width(grid)>>

BoxCells(grid) ==
    {c \in Cells(<<Height(grid), Width(grid)>>) : Tile(grid, c) = BoxLeft}

\* warehouses inside a border of walls: up to MaxWarehouseRows rows and
\* MaxWarehouseCols columns of inner cells holding the robot, in the first
\* row, and up to MaxObstacles crates and walls
InitDay15 ==
    /\ \E h \in 1..MaxWarehouseRows :
         \E w \in 1..MaxWarehouseCols :
            LET inner == {<<r, c>> : r \in 1..h, c \in 1..w} IN
            \E at \in {c \in inner : c[1] = 1} :
               \E crates \in {S \in SUBSET (inner \ {at}) : Cardinality(S) <= MaxObstacles} :
                  \E walls \in {S \in SUBSET (inner \ ({at} \cup crates)) :
                                  Cardinality(S) <= MaxObstacles - Cardinality(crates)} :
                     LET cell(k) == <<(k - 1) \div (w + 2), (k - 1) % (w + 2)>>
                         data == [k \in 1..((h + 2) * (w + 2)) |->
                                     IF cell(k) = at THEN Robot
                                     ELSE IF cell(k) \in crates THEN Crate
                                     ELSE IF cell(k) \in inner \ walls THEN Dot
                                     ELSE Wall]
                     IN  args = [fn |-> "warehouse",
                                 grid |-> GridFromVec(w + 2, 0, data)]
    /\ LET grid == GridFromVec(Width(args.grid) * 2, 0, Widened(args.grid.data))
       IN  locals = [fn |-> "warehouse", grid |-> grid, pos |-> FindStartingPos(grid),
                     lifted |-> 0]
    /\ result = NoResult

\* one turn of `for movement in self.movements`, for any movement
Day15Move ==
    /\ args.fn = "warehouse"
    /\ \E movement \in Movements :
          LET d == MoveDelta(movement)
              pos == locals.pos
          IN  IF PushWide(locals.grid, pos, movement, TRUE).ok
              THEN LET pushed == PushWide(locals.grid, pos, movement, FALSE).grid
                       g1 == GridSet(pushed, Shift(pos, d), Tile(pushed, pos))
                       g2 == GridSet(g1, pos, Dot)
                   IN  locals' = [locals EXCEPT
                                    !.grid = g2,
                                    !.pos = Shift(pos, d),
                                    \* how many boxes the move displaced, when it
                                    \* was a move up or down
                                    !.lifted =
                                        IF movement \in {"Up", "Down"}
                                        THEN Cardinality(BoxCells(locals.grid) \ BoxCells(g2))
                                        ELSE 0]
              ELSE locals' = [locals EXCEPT !.lifted = 0]
    /\ UNCHANGED <<args, result>>

(***************************************************************************)
(* 2023 day 14 (solvers/year2023/day14.rs): spin_one_cycle, solve_part_2   *)
(***************************************************************************)
\* b'O' and b'#'
RoundRock == 79
CubeRock == 35

\* the inner loop of roll_north over one column
RECURSIVE RollNorthLine(_, _, _, _)
RollNorthLine(platform, line, at, free) ==
    IF at >= Height(platform) THEN platform
    ELSE IF Tile(platform, <<at, line>>) = RoundRock
    THEN RollNorthLine(IF free < at
                        THEN GridSet(GridSet(platform, <<free, line>>, RoundRock), <<at, line>>, Dot)
                        ELSE platform,
                        line, at + 1, free + 1)
    ELSE IF Tile(platform, <<at, line>>) = CubeRock
    THEN RollNorthLine(platform, line, at + 1, at + 1)
    ELSE RollNorthLine(platform, line, at + 1, free)

RECURSIVE RollNorthFrom(_, _)
RollNorthFrom(platform, line) ==
    IF line >= Width(platform) THEN platform
    ELSE RollNorthFrom(RollNorthLine(platform, line, 0, 0), line + 1)

\* roll_north
RollNorth(platform) == RollNorthFrom(platform, 0)

\* the inner loop of roll_south over one column
RECURSIVE RollSouthLine(_, _, _, _)
RollSouthLine(platform, line, at, free) ==
    IF at < 0 THEN platform
    ELSE IF Tile(platform, <<at, line>>) = RoundRock
    THEN RollSouthLine(IF free > at
                        THEN GridSet(GridSet(platform, <<free, line>>, RoundRock), <<at, line>>, Dot)
                        ELSE platform,
                        line, at - 1, IF free > 0 THEN free - 1 ELSE 0)
    ELSE IF Tile(platform, <<at, line>>) = CubeRock
    THEN RollSouthLine(platform, line, at - 1, IF at > 0 THEN at - 1 ELSE 0)
    ELSE RollSouthLine(platform, line, at - 1, free)

RECURSIVE RollSouthFrom(_, _)
RollSouthFrom(platform, line) ==
    IF line >= Width(platform) THEN platform
    ELSE RollSouthFrom(RollSouthLine(platform, line, Height(platform) - 1, Height(platform) - 1), line + 1)

\* roll_south
RollSouth(platform) == RollSouthFrom(platform, 0)

\* the inner loop of roll_west over one row
RECURSIVE RollWestLine(_, _, _, _)
RollWestLine(platform, line, at, free) ==
    IF at >= Width(platform) THEN platform
    ELSE IF Tile(platform, <<line, at>>) = RoundRock
    THEN RollWestLine(IF free < at
                        THEN GridSet(GridSet(platform, <<line, free>>, RoundRock), <<line, at>>, Dot)
                        ELSE platform,
                        line, at + 1, free + 1)
    ELSE IF Tile(platform, <<line, at>>) = CubeRock
    THEN RollWestLine(platform, line, at + 1, at + 1)
    ELSE RollWestLine(platform, line, at + 1, free)

RECURSIVE RollWestFrom(_, _)
RollWestFrom(platform, line) ==
    IF line >= Height(platform) THEN platform
    ELSE RollWestFrom(RollWestLine(platform, line, 0, 0), line + 1)

\* roll_west
RollWest(platform) == RollWestFrom(platform, 0)

\* the inner loop of roll_east over one row
RECURSIVE RollEastLine(_, _, _, _)
RollEastLine(platform, line, at, free) ==
    IF at < 0 THEN platform
    ELSE IF Tile(platform, <<line, at>>) = RoundRock
    THEN RollEastLine(IF free > at
                        THEN GridSet(GridSet(platform, <<line, free>>, RoundRock), <<line, at>>, Dot)
                        ELSE platform,
                        line, at - 1, IF free > 0 THEN free - 1 ELSE 0)
    ELSE IF Tile(platform, <<line, at>>) = CubeRock
    THEN RollEastLine(platform, line, at - 1, IF at > 0 THEN at - 1 ELSE 0)
    ELSE RollEastLine(platform, line, at - 1, free)

RECURSIVE RollEastFrom(_, _)
RollEastFrom(platform, line) ==
    IF line >= Height(platform) THEN platform
    ELSE RollEastFrom(RollEastLine(platform, line, Width(platform) - 1, Width(platform) - 1), line + 1)

\* roll_east
RollEast(platform) == RollEastFrom(platform, 0)

SpinOneCycle(platform) == RollEast(RollSouth(RollWest(RollNorth(platform))))

RECURSIVE SpinTimes(_, _)
SpinTimes(grid, n) == IF n <= 0 THEN grid ELSE SpinTimes(SpinOneCycle(grid), n - 1)

\* determine_load
DetermineLoad(grid) ==
    LET rocks == {c \in Cells(<<Height(grid), Width(grid)>>) : Tile(grid, c) = RoundRock}
        RECURSIVE Sum(_)
        Sum(S) == IF S = {} THEN 0
                  ELSE LET c == CHOOSE x \in S : TRUE
                       IN  (Height(grid) - c[1]) + Sum(S \ {c})
    IN  Sum(rocks)

\* platforms of up to MaxPlatformSide rows and columns with up to
\* MaxRoundRocks round and MaxCubeRocks cube rocks; MAX_CYCLES, 1_000_000_000
\* in the code, is scaled down to every number of cycles up to MaxCycles
InitDay14 ==
    /\ \E h \in 1..MaxPlatformSide, w \in 1..MaxPlatformSide :
         \E round \in {S \in SUBSET Cells(<<h, w>>) : Cardinality(S) <= MaxRoundRocks} :
            \E cube \in {S \in SUBSET (Cells(<<h, w>>) \ round) :
                           Cardinality(S) <= MaxCubeRocks} :
               \E n \in 1..MaxCycles :
                  LET tile == [c \in Cells(<<h, w>>) |->
                                 IF c \in round THEN RoundRock
                                 ELSE IF c \in cube THEN CubeRock ELSE Dot]
                  IN  args = [fn |-> "platform",
                              grid |-> GridFromSeparated(Newline, TileRows(0, h, w, tile)),
                              max_cycles |-> n]
    /\ locals = [fn |-> "platform", grid |-> args.grid,
                 seen |-> [g \in {args.grid} |-> 0], i |-> 1, broke |-> FALSE]
    /\ result = NoResult

\* as Day14Spin, breaking out without running the remaining cycles
Day14Spin_NoRemaining ==
    /\ args.fn = "platform" /\ ~result.done
    /\ ~locals.broke /\ locals.i <= args.max_cycles
    /\ LET grid == SpinOneCycle(locals.grid)
           i == locals.i
       IN  IF grid \in DOMAIN locals.seen
           THEN locals' = [locals EXCEPT !.grid = grid, !.broke = TRUE]
           ELSE locals' = [locals EXCEPT !.grid = grid,
                                         !.seen = MapPut(@, grid, i),
                                         !.i = i + 1]
    /\ UNCHANGED <<args, result>>

\* one turn of `for i in 1..=MAX_CYCLES`
Day14Spin ==
    /\ args.fn = "platform" /\ ~result.done
    /\ ~locals.broke /\ locals.i <= args.max_cycles
    /\ LET grid == SpinOneCycle(locals.grid)
           i == locals.i
       IN  IF grid \in DOMAIN locals.seen
           THEN LET x == locals.seen[grid]
                    remaining_cycles == (args.max_cycles - i) % (i - x)
                IN  locals' = [locals EXCEPT !.grid = SpinTimes(grid, remaining_cycles),
                                             !.broke = TRUE]
           ELSE locals' = [locals EXCEPT !.grid = grid,
                                         !.seen = MapPut(@, grid, i),
                                         !.i = i + 1]
    /\ UNCHANGED <<args, result>>

Day14Return ==
    /\ args.fn = "platform" /\ ~result.done
    /\ locals.broke \/ locals.i > args.max_cycles
    /\ result' = ResultOk(DetermineLoad(locals.grid))
    /\ UNCHANGED <<args, locals>>

(***************************************************************************)
(* The create command (main.rs)                                            *)
(***************************************************************************)
\* a line of the module listing: its indentation and its text after trim()
Line(indent, text) == [indent |-> indent, text |-> text]

\* MODULE_DECLARATION_MARKER
MODULE_DECLARATION_MARKER == <<"// <<INSERT MARKER>>">>

\* format!("pub mod day{};", day), the text after the indentation
ModDeclaration(day) == <<"pub mod day", day, ";">>

\* format!("src/solvers/yr{}", yr) joined with the file name
DayPath(yr, day) == <<"src/solvers/year", yr, "/day", day, ".rs">>
ExamplePath(yr, day) == <<"src/solvers/year", yr, "/day", day, "-1.example">>

\* TEMPLATE.replace("{{day}}", &day.to_string())
SourceContent(day) == <<"template", day>>

\* write_if_non_existent
WriteIfNonExistent(fs, path, content) ==
    IF path \in DOMAIN fs THEN fs ELSE MapPut(fs, path, content)

\* the loop `for day in &days` with both writes of each turn
RECURSIVE WriteDays(_, _, _)
WriteDays(fs, yr, ds) ==
    IF ds = <<>> THEN fs
    ELSE WriteDays(WriteIfNonExistent(
                       WriteIfNonExistent(fs, DayPath(yr, Head(ds)),
                                          SourceContent(Head(ds))),
                       ExamplePath(yr, Head(ds)), <<>>),
                   yr, Tail(ds))

\* the lines a marker line is replaced by
Declarations(days_to_add) ==
    [k \in 1..Len(days_to_add) |-> Line(4, ModDeclaration(days_to_add[k]))]
        \o <<Line(4, MODULE_DECLARATION_MARKER)>>

\* add_module_declaration: lines().map(..).join("\n"), written back; the
\* joined text has no newline at its end
RECURSIVE PatchLines(_, _)
PatchLines(lines, days_to_add) ==
    IF lines = <<>> THEN <<>>
    ELSE (IF Head(lines).text = MODULE_DECLARATION_MARKER
          THEN Declarations(days_to_add)
          ELSE <<Head(lines)>>) \o PatchLines(Tail(lines), days_to_add)

AddModuleDeclaration(listing, days_to_add) ==
    [lines |-> PatchLines(listing.lines, days_to_add), newline_at_end |-> FALSE]

CreateYears == {2024, 2025}

\* src/solvers/mod.rs with the block of one yr and its marker; no day
\* has been created
InitCreate ==
    /\ args = [fn |-> "create"]
    /\ locals = [fn |-> "create",
                 fs |-> [path \in {} |-> <<>>],
                 listing |-> [lines |-> <<Line(0, <<"pub mod year2025 {">>),
                                          Line(4, MODULE_DECLARATION_MARKER),
                                          Line(0, <<"}">>)>>,
                              newline_at_end |-> TRUE],
                 created |-> {},
                 runs |-> 0]
    /\ result = NoResult

\* Command::Create for a yr and a list of ds
CreateCommand ==
    /\ args.fn = "create"
    /\ locals.runs < MaxRuns
    /\ \E yr \in CreateYears, n \in 1..MaxCreateDays :
         \E ds \in [1..n -> 1..MaxCreateDay] :
            locals' = [locals EXCEPT
                         !.fs = WriteDays(@, yr, ds),
                         !.listing = AddModuleDeclaration(@, ds),
                         !.created = @ \cup {<<yr, ds[k]>> : k \in 1..n},
                         !.runs = @ + 1]
    /\ UNCHANGED <<args, result>>

\* the solver or the example of a created day is edited by hand
CreateEdit ==
    /\ args.fn = "create"
    /\ \E path \in DOMAIN locals.fs :
          /\ locals.fs[path] # <<"edited">>
          /\ locals' = [locals EXCEPT !.fs[path] = <<"edited">>]
    /\ UNCHANGED <<args, result>>

(***************************************************************************)
(* Claims about the surround iterator                                      *)
(***************************************************************************)
InGrid(cell, size) ==
    cell[1] >= 0 /\ cell[1] < size[1] /\ cell[2] >= 0 /\ cell[2] < size[2]

\* top-left, top, top-right, left, right, bottom-left, bottom, bottom-right
SurroundOrder(center) ==
    [i \in 1..8 |->
        <<center[1] + <<-1, -1, -1, 0, 0, 1, 1, 1>>[i],
          center[2] + <<-1, 0, 1, -1, 1, -1, 0, 1>>[i]>>]

ExpectedSurround(center, size) ==
    LET inside(cell) == InGrid(cell, size)
    IN  SelectSeq(SurroundOrder(center), inside)

IsPrefix(a, b) == Len(a) <= Len(b) /\ a = SubSeq(b, 1, Len(a))

OnEdges(center, size) ==
    (IF center[1] \in {0, size[1] - 1} THEN 1 ELSE 0)
    + (IF center[2] \in {0, size[2] - 1} THEN 1 ELSE 0)

\* C8: on a grid of at least 1x1 with an in-bounds center, the surround
\* iterator yields exactly the in-bounds cells among the eight around the
\* center, once each, never the center, in the order top-left, top,
\* top-right, left, right, bottom-left, bottom, bottom-right; on a 3x3 grid
\* 3 cells for a corner, 5 for another edge cell, 8 for the interior cell.
C8_SurroundCells ==
    iter.size # <<0, 0>> =>
        LET expected == ExpectedSurround(iter.center, iter.size) IN
        /\ IsPrefix(yielded, expected)
        /\ exhausted => yielded = expected
        /\ \A i \in 1..Len(yielded) : yielded[i] # iter.center
        /\ (exhausted /\ iter.size = <<3, 3>>) =>
              Len(yielded) = CASE OnEdges(iter.center, iter.size) = 2 -> 3
                               [] OnEdges(iter.center, iter.size) = 1 -> 5
                               [] OTHER -> 8

\* the iterator around the top edge cell (0, 1) of a 3x3 grid is exhausted
C8_Witness ==
    /\ iter.size = <<3, 3>> /\ iter.center = <<0, 1>>
    /\ exhausted /\ Len(yielded) = 5

(***************************************************************************)
(* Claims about the file cache                                             *)
(***************************************************************************)
Returned(p) == pc[p] = "done"

\* C1: over successful gets of one cache without concurrent callers, fetch
\* is invoked at most once per key, only by a get that found no cache file,
\* and every later get returns the first get's content without fetching.
C1_FetchOncePerKey ==
    /\ \A k \in DOMAIN hist : hist[k].okFetches <= 1
    /\ \A p \in Callers : call[p].fetched => ~call[p].existed
    /\ \A p \in Callers :
          (Returned(p) /\ ret[p].ok) =>
              /\ ret[p].text = hist[call[p].key].first
              /\ hist[call[p].key].later => ~call[p].fetched

\* the file name the claim states: 4-digit year, '-', 2-digit day
NameOf(key) ==
    DigitChar((key.year \div 1000) % 10) \o DigitChar((key.year \div 100) % 10)
    \o DigitChar((key.year \div 10) % 10) \o DigitChar(key.year % 10) \o "-"
    \o DigitChar((key.day \div 10) % 10) \o DigitChar(key.day % 10)

\* C2: a successful get that found no cache file has created exactly one
\* file, named NameOf(key), holding the stream's chunks concatenated in
\* order, and returns exactly those bytes.
C2_PopulateWritesStream ==
    \A p \in Callers :
        (Returned(p) /\ ret[p].ok /\ ~call[p].existed) =>
            /\ DOMAIN files = call[p].dirBefore \cup {NameOf(call[p].key)}
            /\ NameOf(call[p].key) \notin call[p].dirBefore
            /\ files[NameOf(call[p].key)] = Flatten(call[p].stream)
            /\ ret[p].text = Flatten(call[p].stream)

\* well-formed texts over the bytes of Chunks (and the fill byte 0)
RECURSIVE IsText(_)
IsText(bs) ==
    \/ bs = <<>>
    \/ bs[1] \in {0, 65} /\ IsText(Tail(bs))
    \/ Len(bs) >= 2 /\ bs[1] = 195 /\ bs[2] = 169 /\ IsText(Tail(Tail(bs)))

\* C3: a get whose fetch failed, whose stream yielded an error item, or that
\* read bytes that are not valid UTF-8 returns an error and no text.
C3_ErrorsPropagate ==
    \A p \in Callers :
        (/\ Returned(p)
         /\ \/ call[p].fetchFailed
            \/ call[p].streamErrored
            \/ call[p].didRead /\ ~IsText(call[p].readBytes))
        => (~ret[p].ok /\ ret[p].text = NoText)

\* a stream error after a chunk was written: the get has returned an error
C3_Witness ==
    \E p \in Callers :
        /\ Returned(p) /\ call[p].streamErrored /\ ~ret[p].ok
        /\ Len(call[p].stream) = 2
        /\ Exists(call[p].path) /\ files[call[p].path] # <<>>

(***************************************************************************)
(* Claims about the grid view                                              *)
(***************************************************************************)
Constructed == gridView # NoView
FromBuffer == gridIn.ctor \in {"new", "from_vec"}
Indexed == gridOut # NoOut
Row == gridOut.index[1]
Col == gridOut.index[2]
CellOffsets(view) ==
    {view.width * r + c : r \in 0..(Height(view) - 1), c \in 0..(Width(view) - 1)}

\* C4: construction aborts whenever the buffer length mod total_width is
\* non-zero and smaller than total_width - separator_width; when it succeeds
\* every logical cell lies inside the buffer and the logical cells are
\* exactly the non-separator elements of the buffer.
C4_ConstructionChecksLength ==
    (Constructed /\ FromBuffer /\ gridIn.width >= 1) =>
        LET W == gridIn.width
            sw == gridIn.separator_width
            n == Len(gridIn.data)
        IN  /\ (n % W # 0 /\ n % W < W - sw) => ~gridView.ok
            /\ gridView.ok =>
                  /\ \A o \in CellOffsets(gridView) : o < n
                  /\ CellOffsets(gridView) = {o \in 0..(n - 1) : o % W < W - sw}

\* C5: grid[(row, col)] is the buffer element at row * total_width + col
\* when row < height() and col < width(); it aborts when col >= width() and
\* when row >= height().
C5_IndexMatchesOffset ==
    (gridView.ok /\ Indexed) =>
        LET offset == gridView.width * Row + Col IN
        /\ (Row < Height(gridView) /\ Col < Width(gridView)) =>
              /\ gridOut.res.ok
              /\ offset < Len(gridView.data)
              /\ gridOut.res.val = gridView.data[offset + 1]
        /\ Col >= Width(gridView) => ~gridOut.res.ok
        /\ Row >= Height(gridView) => ~gridOut.res.ok

\* C6: over a buffer of h >= 1 rows of total_width elements whose last row
\* omits j of its separator_width < total_width trailing separators, the
\* view has height h and width total_width - separator_width and its cell
\* (r, c) is element r * total_width + c for every j; for width 5 and
\* separator width 2 over 8, 9 or 10 sequential bytes: width 3, height 2,
\* grid[(1,0)] = 5, grid[(1,2)] = 7.
C6_PartialLastRow ==
    (Constructed /\ FromBuffer /\ gridIn.width >= 1
        /\ gridIn.separator_width < gridIn.width) =>
        LET W == gridIn.width
            sw == gridIn.separator_width
            n == Len(gridIn.data)
        IN  /\ \A h \in 1..(MaxLen + 1), j \in 0..sw :
                  n = h * W - j =>
                      /\ gridView.ok
                      /\ Height(gridView) = h
                      /\ Width(gridView) = W - sw
                      /\ (Indexed /\ Row < h /\ Col < W - sw) =>
                            gridOut.res = Value(Row * W + Col)
            /\ (W = 5 /\ sw = 2 /\ n \in {8, 9, 10}) =>
                  /\ Width(gridView) = 3 /\ Height(gridView) = 2
                  /\ GridIndex(gridView, <<1, 0>>) = Value(5)
                  /\ GridIndex(gridView, <<1, 2>>) = Value(7)

\* width 5, separator width 2 over the 8 bytes 0..7: grid[(1,2)] was read
C6_Witness ==
    /\ gridIn.ctor = "new" /\ gridIn.width = 5 /\ gridIn.separator_width = 2
    /\ gridIn.data = Sequential(8)
    /\ gridView.ok /\ gridOut = [index |-> <<1, 2>>, res |-> Value(7)]

\* C7: from_separated over h >= 1 rows of w >= 1 non-separator elements
\* joined by one separator, with or without a trailing separator, has width
\* w and height h and cell (r, c) is the c-th element of the r-th row; for
\* b"123\n456\n789": width 3, height 3, grid[(2,2)] = b'9'.
C7_FromSeparated ==
    (Constructed /\ gridIn.ctor = "from_separated") =>
        /\ gridView.ok
        /\ Width(gridView) = gridIn.cols
        /\ Height(gridView) = gridIn.rows
        /\ (Indexed /\ Row < gridIn.rows /\ Col < gridIn.cols) =>
              gridOut.res = Value(Elem(Row, Col, gridIn.cols))
        /\ gridIn.data = <<49, 50, 51, 10, 52, 53, 54, 10, 55, 56, 57>> =>
              /\ Width(gridView) = 3 /\ Height(gridView) = 3
              /\ GridIndex(gridView, <<2, 2>>) = Value(57)

\* b"123\n456\n789": grid[(2,2)] was read
C7_Witness ==
    /\ gridIn.ctor = "from_separated"
    /\ gridIn.data = <<49, 50, 51, 10, 52, 53, 54, 10, 55, 56, 57>>
    /\ gridView.ok /\ gridOut = [index |-> <<2, 2>>, res |-> Value(57)]


(***************************************************************************)
(* Claims about dispatch and the solve command                             *)
(***************************************************************************)
\* the solver modules of the repository
HasSolver(y, d) == (y \in {2023, 2024} /\ d \in 1..25) \/ (y = 2025 /\ d \in 1..12)

StepsOfDay(i) == {log[j].step : j \in {k \in 1..Len(log) : log[k].i = i}}

\* C9: dispatching a (year, day) without solver module ends with the error
\* "no solver for day D of year Y" and no solver is constructed or run for
\* it; otherwise the solver constructed is that of the requested year and
\* day, over the input obtained for that day.
C9_Dispatch ==
    /\ failure.kind = "dispatch" =>
          /\ ~HasSolver(year, days[idx])
          /\ failure.msg =
                "no solver for day " \o Decimal(days[idx]) \o " of year " \o Decimal(year)
          /\ (year = 2025 /\ days[idx] = 13) =>
                failure.msg = "no solver for day 13 of year 2025"
          /\ StepsOfDay(idx) \cap {"new", "part1", "part2"} = {}
    /\ \A j \in 1..Len(log) :
          log[j].step \in {"new", "part1", "part2"} => HasSolver(year, days[log[j].i])
    /\ solver # NoSolver =>
          /\ solver.year = year /\ solver.day = days[idx]
          /\ solver.input = input

\* day 12 of 2025 was solved, then day 13 had no solver
C9_Witness ==
    /\ year = 2025 /\ days = <<12, 13>> /\ idx = 2
    /\ mpc = "exit_err" /\ failure.kind = "dispatch"
    /\ "part2" \in StepsOfDay(1)

\* event b may come directly after event a
Follows(a, b) ==
    \/ /\ a.i = b.i
       /\ <<a.step, b.step>> \in
             {<<"get", "fetch">>, <<"get", "new">>, <<"fetch", "new">>,
              <<"new", "part1">>, <<"part1", "part2">>}
    \/ a.i = b.i /\ a.step # "error" /\ b.step = "error"
    \/ a.step = "part2" /\ b.step = "get" /\ b.i = a.i + 1

\* C10: the days are processed one after another in the requested order,
\* each as get (with at most one fetch), construct, part 1, part 2; at most
\* one fetch is outstanding; the first error ends the invocation: nothing
\* is retried and no later day is fetched or solved.
C10_Sequential ==
    /\ log # <<>> => log[1] = Event("get", 1)
    /\ \A j \in 1..(Len(log) - 1) : Follows(log[j], log[j + 1])
    /\ \A j \in 1..Len(log) : log[j].i <= Len(days)
    /\ Cardinality({p \in Callers : pc[p] \in {"fetching", "create", "stream"}}) <= 1
    /\ (mpc = "exit_err") <=> (log # <<>> /\ log[Len(log)].step = "error")
    /\ mpc \in {"exit_err", "exit_ok"} => \A p \in Callers : pc[p] = "idle"
    /\ mpc = "exit_ok" => "part2" \in StepsOfDay(Len(days))

\* the first day was fetched and solved, the second day's get failed
C10_Witness ==
    /\ Len(days) = 2 /\ idx = 2
    /\ mpc = "exit_err" /\ failure.kind = "get"
    /\ {"fetch", "part2"} \subseteq StepsOfDay(1)
    /\ "fetch" \in StepsOfDay(2)

FetchEvents == {j \in 1..Len(log) : log[j].step = "fetch"}

\* C11: within one solve invocation AocClient::new and the session-id
\* lookup run at most once, however many days miss the cache, and not at
\* all when every requested day was cached at the start.
C11_ClientOnce ==
    /\ clientNews <= 1
    /\ sessionLookups <= 1
    /\ client => clientNews = 1 /\ sessionLookups = 1
    /\ {days[i] : i \in 1..Len(days)} \subseteq cachedAtStart =>
          clientNews = 0 /\ sessionLookups = 0

\* two days missed the cache and were fetched with the one client
C11_Witness ==
    /\ Cardinality({days[i] : i \in 1..Len(days)}) = 2
    /\ cachedAtStart = {}
    /\ Cardinality({log[j].i : j \in FetchEvents}) = 2
    /\ client /\ clientNews = 1 /\ sessionLookups = 1

\* C12: gets of one absent key that run concurrently are not coordinated.
\* Each get decides on the existence test alone (it fetches exactly when it
\* saw no file, so several gets can fetch the same key), and a successful
\* get returns whatever the file held when it read it, which can be a
\* strict prefix of the fetched content.
C12_PopulateNotAtomic ==
    /\ fetchCalls[ConcKey] <= gets
    /\ \A p \in Callers :
          /\ call[p].fetched => ~call[p].existed
          /\ pc[p] \in {"fetching", "create", "stream"} => call[p].fetched
          /\ (pc[p] = "done" /\ ret[p].ok) =>
                /\ call[p].didRead
                /\ ret[p].text = call[p].readBytes
                /\ ~call[p].existed => call[p].fetched

\* both gets fetched; the first has returned the empty text although its
\* stream was written completely: the second get had created (truncated)
\* the file in between and has not written its stream yet
C12_Witness ==
    /\ fetchCalls[ConcKey] = 2
    /\ pending = {}
    /\ pc[1] = "done" /\ ret[1].ok /\ call[1].fetched
    /\ call[1].source = <<>>
    /\ call[1].pos = Len(Flatten(call[1].stream)) /\ call[1].pos > 0
    /\ Len(ret[1].text) < call[1].pos
    /\ pc[2] = "stream" /\ call[2].pos = 0 /\ call[2].stream # <<>>
    /\ IsPrefix(ret[1].text, Flatten(call[2].stream))

\* C16: after a get that found no file and returned an error, no cache
\* file of its key exists (so that the next get of the key fetches again).
C16_FailedGetLeavesNoFile ==
    \A p \in Callers :
        (pc[p] = "done" /\ ~ret[p].ok /\ ~call[p].existed) => ~Exists(call[p].path)

ExpectedNeighbors(center, size) ==
    LET inside(cell) == InGrid(cell, size)
        around == [i \in 1..4 |-> <<center[1] + <<-1, 0, 0, 1>>[i],
                                    center[2] + <<0, -1, 1, 0>>[i]>>]
    IN  SelectSeq(around, inside)

NeighborCount(center, size) ==
    CASE OnEdges(center, size) = 2 -> 2
      [] OnEdges(center, size) = 1 -> 3
      [] OTHER -> 4

\* C15 as stated: on any bounded grid the four-neighbour iterator yields
\* exactly the in-bounds orthogonal neighbours of an in-bounds cell, in a
\* fixed order: 2 for a corner, 3 for another edge cell, 4 for an interior
\* cell.
C15_NeighborCells ==
    (iter.size # <<0, 0>> /\ exhausted) =>
        /\ yielded = ExpectedNeighbors(iter.center, iter.size)
        /\ Len(yielded) = NeighborCount(iter.center, iter.size)

\* C15 amended: the cells and their order hold on every grid; the counts
\* 2 / 3 / 4 hold on grids of at least two rows and two columns.
C15_NeighborCellsAmended ==
    iter.size # <<0, 0>> =>
        LET expected == ExpectedNeighbors(iter.center, iter.size) IN
        /\ IsPrefix(yielded, expected)
        /\ exhausted => yielded = expected
        /\ \A i \in 1..Len(yielded) :
              /\ InGrid(yielded[i], iter.size)
              /\ \A k \in 1..Len(yielded) : k # i => yielded[k] # yielded[i]
        /\ (exhausted /\ iter.size[1] >= 2 /\ iter.size[2] >= 2) =>
              Len(yielded) = NeighborCount(iter.center, iter.size)

\* the iterator of the edge cell (0, 1) of a 3x3 grid is exhausted after
\* three cells
C15_Witness ==
    /\ iter.size = <<3, 3>> /\ iter.center = <<0, 1>>
    /\ exhausted
    /\ yielded = <<<<0, 0>>, <<0, 2>>, <<1, 1>>>>

(***************************************************************************)
(* Claims about the solvers                                                *)
(***************************************************************************)
Adjacent(c, d) ==
    (IF c[1] >= d[1] THEN c[1] - d[1] ELSE d[1] - c[1])
    + (IF c[2] >= d[2] THEN c[2] - d[2] ELSE d[2] - c[2]) = 1

\* the cells that at most k orthogonal steps reach from the top-left cell
\* when no step enters a cell of `blocked`
RECURSIVE Within(_, _, _)
Within(k, size, blocked) ==
    IF k = 0 THEN {<<0, 0>>}
    ELSE LET w == Within(k - 1, size, blocked)
         IN  w \cup {c \in Cells(size) \ blocked : \E d \in w : Adjacent(c, d)}

PathLengths(a) ==
    {k \in 0..(a.grid_size[1] * a.grid_size[2]) :
        <<a.grid_size[1] - 1, a.grid_size[2] - 1>>
            \in Within(k, a.grid_size, Fallen(a))}

\* C13: the search returns the least number of orthogonal steps that lead
\* from the top-left to the bottom-right cell without stepping on one of
\* the first n byte positions, and "No path found" exactly when there is
\* no such sequence of steps.
C13_ShortestPath ==
    (args.fn = "day18" /\ result.done) =>
        IF PathLengths(args) = {}
        THEN result = ResultErr("No path found")
        ELSE /\ result.ok
             /\ result.value \in PathLengths(args)
             /\ \A k \in PathLengths(args) : result.value <= k

\* a 3x3 grid whose middle and top-middle cells are fallen bytes: the
\* search has returned the four steps along the left and bottom edges
C13_Witness ==
    /\ args.fn = "day18" /\ args.grid_size = <<3, 3>>
    /\ Fallen(args) = {<<0, 1>>, <<1, 1>>}
    /\ result = ResultOk(4)

\* a grid cut in two by the fallen bytes: the search has failed
C13_WitnessNoPath ==
    /\ args.fn = "day18" /\ args.grid_size = <<3, 3>>
    /\ Fallen(args) = {<<0, 1>>, <<1, 0>>}
    /\ result = ResultErr("No path found")

\* the beam entries on the four edges of the grid
BeamEntries(grid) ==
    {<<"Down", <<0, c>>>> : c \in 0..(Width(grid) - 1)}
    \cup {<<"Up", <<Height(grid) - 1, c>>>> : c \in 0..(Width(grid) - 1)}
    \cup {<<"Right", <<r, 0>>>> : r \in 0..(Height(grid) - 1)}
    \cup {<<"Left", <<r, Width(grid) - 1>>>> : r \in 0..(Height(grid) - 1)}

\* C14: whatever pieces the starts are split into and in whatever order
\* the pieces are mapped and combined, part 2 returns the maximum of
\* count_energized_tiles over the beam entries on the four edges.
C14_MaxOverEntries ==
    (args.fn = "day16" /\ result.done) =>
        /\ result.ok
        /\ \E e \in BeamEntries(args.grid) :
              result.value = CountEnergizedTiles(args.grid, e)
        /\ \A e \in BeamEntries(args.grid) :
              result.value >= CountEnergizedTiles(args.grid, e)

\* a 2x2 grid with a mirror in its top-left cell, split in three pieces:
\* the largest count (3 tiles) is in the middle piece
C14_Witness ==
    /\ args.fn = "day16" /\ result.done
    /\ Width(args.grid) = 2 /\ Height(args.grid) = 2
    /\ GridIndex(args.grid, <<0, 0>>).val = Slash
    /\ locals.splits = 2
    /\ result.value = 3

Abs(v) == IF v < 0 THEN 0 - v ELSE v

\* the position of a 0..99 dial after k single clicks of the rotation v
AfterClicks(dial, v, k) ==
    IF v < 0 THEN (dial + 100 * k - k) % 100 ELSE (dial + k) % 100

\* the number of single clicks of the rotations that leave the dial at 0
RECURSIVE ZeroClicks(_, _)
ZeroClicks(dial, instructions) ==
    IF instructions = <<>> THEN 0
    ELSE LET v == Head(instructions) IN
         Cardinality({k \in 1..Abs(v) : AfterClicks(dial, v, k) = 0})
         + ZeroClicks(AfterClicks(dial, v, Abs(v)), Tail(instructions))

\* C17: the part-2 password is the number of single clicks, over all
\* rotations from dial position 50, after which the dial points at 0, each
\* counted once, the last click of the last rotation included.
C17_ZeroClicksCounted ==
    (args.fn = "day1" /\ result.done) =>
        result.value = ZeroClicks(50, args.instructions)

\* the lights that are on after pressing every button of S once
RECURSIVE Toggled(_)
Toggled(S) ==
    IF S = {} THEN 0
    ELSE LET b == CHOOSE x \in S : TRUE IN Xor(b, Toggled(S \ {b}))

PressCounts(target, buttons) ==
    {Cardinality(S) : S \in {T \in SUBSET buttons : Toggled(T) = target}}

\* C18: for any target and any set of buttons the search returns the least
\* number of buttons, each pressed at most once, that turn the all-off
\* lights into the target; 0 for the all-off target; no result only when
\* no subset of the buttons produces the target.
C18_MinimumPresses ==
    (args.fn = "day10" /\ result.done) =>
        LET counts == PressCounts(args.lights, args.buttons) IN
        /\ result.ok <=> counts # {}
        /\ result.ok => result.value \in counts /\ \A c \in counts : result.value <= c
        /\ args.lights = 0 => result = ResultOk(0)

(***************************************************************************)
(* Claims about the 2024 day 16 maze                                       *)
(***************************************************************************)
Directions == {"North", "South", "East", "West"}

OpenTiles(grid) ==
    {c \in Cells(<<Height(grid), Width(grid)>>) : GridIndex(grid, c).val # Wall}

MazeStates(grid) == OpenTiles(grid) \X Directions

\* the least scores over the open tiles by relaxation to a fixed point; -1 is
\* "not reached"; sign 1 relaxes along the moves (scores from the sources),
\* sign -1 against them (scores to the sources)
RECURSIVE Relax(_, _, _)
Relax(dist, open, sign) ==
    LET via(x) ==
            LET back == <<x[1][1] - sign * Delta(x[2])[1],
                          x[1][2] - sign * Delta(x[2])[2]>>
            IN  {dist[<<x[1], Lturn(x[2])>>] + 1000 : y \in {1} \cap
                     (IF dist[<<x[1], Lturn(x[2])>>] # -1 THEN {1} ELSE {})}
                \cup {dist[<<x[1], Rturn(x[2])>>] + 1000 : y \in {1} \cap
                     (IF dist[<<x[1], Rturn(x[2])>>] # -1 THEN {1} ELSE {})}
                \cup {dist[<<back, x[2]>>] + 1 : y \in {1} \cap
                     (IF back \in open /\ dist[<<back, x[2]>>] # -1
                      THEN {1} ELSE {})}
                \cup (IF dist[x] # -1 THEN {dist[x]} ELSE {})
        next == [x \in DOMAIN dist |->
                    IF via(x) = {} THEN -1
                    ELSE CHOOSE m \in via(x) : \A n \in via(x) : m <= n]
    IN  IF next = dist THEN dist ELSE Relax(next, open, sign)

ScoresFrom(grid, sources) ==
    Relax([x \in MazeStates(grid) |-> IF x \in sources THEN 0 ELSE -1],
          OpenTiles(grid), 1)

ScoresTo(grid, targets) ==
    Relax([x \in MazeStates(grid) |-> IF x \in targets THEN 0 ELSE -1],
          OpenTiles(grid), -1)

EndPos(grid) == CHOOSE c \in OpenTiles(grid) : GridIndex(grid, c).val = EndTile

\* the tiles on at least one lowest-score path from S facing East to E
BestPathTiles(grid, start) ==
    LET from == ScoresFrom(grid, {<<start, "East">>})
        to == ScoresTo(grid, {EndPos(grid)} \X Directions)
        arrivals == {from[<<EndPos(grid), d>>] : d \in Directions} \ {-1}
        best == CHOOSE m \in arrivals : \A n \in arrivals : m <= n
    IN  IF arrivals = {} THEN {}
        ELSE {x[1] : x \in {y \in MazeStates(grid) :
                              /\ from[y] # -1 /\ to[y] # -1
                              /\ from[y] + to[y] = best}}

\* C19: part 2 of 2024 day 16 is the number of distinct tiles, S and E
\* included, that lie on at least one lowest-score path from S facing East
\* to E; lowest-score paths arriving at E from different directions all
\* contribute their tiles.
C19_BestPathTiles ==
    (args.fn = "maze" /\ result.done)
        => LET tiles == BestPathTiles(args.grid, args.start_pos)
           IN  tiles # {} => result = ResultOk(Cardinality(tiles))

(***************************************************************************)
(* Claims about the 2025 day 8 junction boxes                              *)
(***************************************************************************)
BoxIds == 0..(Len(args.junction_boxes) - 1)

RECURSIVE Component(_, _)
Component(boxes, edges) ==
    LET more == boxes \cup {b \in BoxIds : \E a \in boxes : {a, b} \in edges}
    IN  IF more = boxes THEN boxes ELSE Component(more, edges)

Circuits(edges) == {Component({b}, edges) : b \in BoxIds}

RECURSIVE SizesOf(_)
SizesOf(circuits) ==
    IF circuits = {} THEN <<>>
    ELSE LET c == CHOOSE x \in circuits : TRUE
         IN  <<Cardinality(c)>> \o SizesOf(circuits \ {c})

\* the connected pairs are n pairs none of which is farther apart than a
\* pair left unconnected
ClosestPairs(edges) ==
    /\ Cardinality(edges) = args.n
    /\ \A e \in edges : Cardinality(e) = 2 /\ e \subseteq BoxIds
    /\ \A e \in edges : \A a, b \in BoxIds :
          (a # b /\ {a, b} \notin edges)
             => \A x, y \in e : x # y =>
                   DistSq(args.junction_boxes[x + 1], args.junction_boxes[y + 1])
                      <= DistSq(args.junction_boxes[a + 1], args.junction_boxes[b + 1])

\* C20: make_connections(n) connects the n closest pairs of boxes and returns
\* the product of the sizes of the three largest circuits (connected
\* components, a box without connection being a circuit of size 1); two
\* boxes carry the same group id exactly when they are in one component.
C20_ThreeLargestCircuits ==
    (args.fn = "connections" /\ result.done /\ result.ok)
        => /\ ClosestPairs(locals.connected)
           /\ result.value = ProductOfLargest(SizesOf(Circuits(locals.connected)), 3)
           /\ \A a, b \in BoxIds :
                 a # b =>
                    ((locals.group_assignments[a + 1] # 0
                        /\ locals.group_assignments[a + 1] = locals.group_assignments[b + 1])
                     <=> b \in Component({a}, locals.connected))

(***************************************************************************)
(* Claims about the 2024 day 23 network                                    *)
(***************************************************************************)
Computers(graph) == 0..(graph.num_vertices - 1)

PairwiseConnected(graph, set) ==
    \A a, b \in set : a # b => HasEdge(graph, a, b)

\* C21: the part-2 result of 2024 day 23 names a set of computers that are
\* pairwise directly connected and that is as large as any such set of the
\* connection graph.
C21_MaximumClique ==
    (args.fn = "clique" /\ result.done)
        => /\ result.value = JoinNames({ComputerName(c) : c \in locals.largest_clique})
           /\ PairwiseConnected(args.graph, locals.largest_clique)
           /\ \A set \in SUBSET Computers(args.graph) :
                 PairwiseConnected(args.graph, set)
                    => Cardinality(set) <= Cardinality(locals.largest_clique)

(***************************************************************************)
(* Claims about the 2024 day 9 disk                                        *)
(***************************************************************************)
FREE == -1   \* MapEntry::FreeSpace: a block that holds no file

\* the blocks of the disk, block by block: a file id, or FREE
RECURSIVE BlocksOf(_, _)
BlocksOf(disk_map, i) ==
    IF i >= Len(disk_map) THEN <<>>
    ELSE [k \in 1..MapAt(disk_map, i) |-> IF IsFreeSpace(i) THEN FREE ELSE Idx2Id(i)]
            \o BlocksOf(disk_map, i + 1)

\* moves file id as a whole into the leftmost run of free blocks to its left
\* that holds it, if there is one
MoveFile(blocks, id) ==
    LET at == {p \in 1..Len(blocks) : blocks[p] = id}
        size == Cardinality(at)
        first == CHOOSE p \in at : \A q \in at : p <= q
        fits == {p \in 1..(first - 1) :
                    /\ p + size - 1 < first
                    /\ \A q \in p..(p + size - 1) : blocks[q] = FREE}
        to == CHOOSE p \in fits : \A q \in fits : p <= q
    IN  IF fits = {} THEN blocks
        ELSE [p \in 1..Len(blocks) |->
                 IF p \in to..(to + size - 1) THEN id
                 ELSE IF p \in at THEN FREE
                 ELSE blocks[p]]

\* every file once, in decreasing order of the file ids
RECURSIVE Compact(_, _)
Compact(blocks, id) ==
    IF id < 0 THEN blocks ELSE Compact(MoveFile(blocks, id), id - 1)

RECURSIVE Checksum(_, _)
Checksum(blocks, p) ==
    IF p > Len(blocks) THEN 0
    ELSE (IF blocks[p] = FREE THEN 0 ELSE (p - 1) * blocks[p]) + Checksum(blocks, p + 1)

ReferenceChecksum(disk_map) ==
    Checksum(Compact(BlocksOf(disk_map, 0), Idx2Id(Len(disk_map) - 1)), 1)

\* C22: the part-2 checksum of 2024 day 9 computed by the single pass from
\* left to right equals the checksum of the disk on which every file, in
\* decreasing order of the file ids, was moved as a whole into the leftmost
\* span of free blocks to its left that is large enough.
C22_SinglePassEqualsReference ==
    (args.fn = "defrag" /\ result.done)
        => result = ResultOk(ReferenceChecksum(args.disk_map))

\* two files were moved and a third stayed in place
C22_Witness ==
    /\ args.fn = "defrag" /\ result.done
    /\ Cardinality({k \in DOMAIN locals.disk_moved : locals.disk_moved[k]}) >= 2
    /\ \E k \in DOMAIN locals.disk_moved : k > 0 /\ ~IsFreeSpace(k) /\ ~locals.disk_moved[k]
    /\ result = ResultOk(ReferenceChecksum(args.disk_map))
    /\ result.value > 0

(***************************************************************************)
(* Claims about the widened 2024 day 15 warehouse                          *)
(***************************************************************************)
WideCells(grid) == Cells(<<Height(grid), Width(grid)>>)

\* the box (its left cell) that covers a cell, as a set of at most one
BoxOver(grid, cell) ==
    IF cell \notin WideCells(grid) THEN {}
    ELSE IF Tile(grid, cell) = BoxLeft THEN {cell}
    ELSE IF Tile(grid, cell) = BoxRight THEN {Shift(cell, <<0, -1>>)}
    ELSE {}

\* the cells a box enters when it moves one step
Entered(box, direction) ==
    CASE direction = "Left" -> {Shift(box, <<0, -1>>)}
      [] direction = "Right" -> {Shift(box, <<0, 2>>)}
      [] OTHER -> {Shift(box, MoveDelta(direction)),
                   Shift(box, <<MoveDelta(direction)[1], 1>>)}

\* the boxes a move pushes: the box in front of the robot and every box in
\* front of a pushed box
RECURSIVE PushedGroup(_, _, _)
PushedGroup(grid, boxes, direction) ==
    LET more == boxes \cup UNION {BoxOver(grid, c) :
                                    c \in UNION {Entered(b, direction) : b \in boxes}}
    IN  IF more = boxes THEN boxes ELSE PushedGroup(grid, more, direction)

\* a wall is in front of the robot or of a box of the pushed group
Blocked(grid, pos, direction) ==
    LET front == Shift(pos, MoveDelta(direction))
        group == PushedGroup(grid, BoxOver(grid, front), direction)
    IN  \/ Tile(grid, front) = Wall
        \/ \E b \in group : \E c \in Entered(b, direction) : Tile(grid, c) = Wall

BoxesPaired(grid) ==
    \A c \in WideCells(grid) :
       /\ Tile(grid, c) = BoxLeft
            => (Shift(c, <<0, 1>>) \in WideCells(grid)
                  /\ Tile(grid, Shift(c, <<0, 1>>)) = BoxRight)
       /\ Tile(grid, c) = BoxRight
            => (Shift(c, <<0, -1>>) \in WideCells(grid)
                  /\ Tile(grid, Shift(c, <<0, -1>>)) = BoxLeft)

WallCells(grid) == {c \in WideCells(grid) : Tile(grid, c) = Wall}

WarehouseIntact ==
    args.fn = "warehouse"
        => /\ BoxesPaired(locals.grid)
           /\ Cardinality(BoxCells(locals.grid))
                 = Cardinality({k \in 1..Len(args.grid.data) : args.grid.data[k] = Crate})
           /\ WallCells(locals.grid)
                 = {<<c[1], 2 * c[2] + e>> : c \in WallCells(args.grid), e \in {0, 1}}

\* a step that changes the grid or the robot position moves the robot one
\* step in a direction in which it is not blocked
BlockedMoveChangesNothing ==
    (args.fn = "warehouse" /\ (locals'.grid # locals.grid \/ locals'.pos # locals.pos))
        => \E direction \in Movements :
              /\ locals'.pos = Shift(locals.pos, MoveDelta(direction))
              /\ ~Blocked(locals.grid, locals.pos, direction)

\* C23: after any sequence of moves on the widened warehouse of 2024 day 15
\* every '[' has a ']' to its right and every ']' a '[' to its left, the
\* number of boxes is the initial one, no wall cell has changed, and a move
\* blocked by a wall in front of any box of the pushed group leaves the
\* grid and the robot position unchanged.
C23_WideBoxesIntact == []WarehouseIntact /\ [][BlockedMoveChangesNothing]_vars

\* a vertical move displaced two boxes that are not in one column
C23_Witness ==
    /\ args.fn = "warehouse"
    /\ locals.lifted >= 2
    /\ \E a, b \in BoxCells(locals.grid) : a[1] # b[1] /\ (a[2] - b[2] = 1 \/ b[2] - a[2] = 1)
    /\ WarehouseIntact

(***************************************************************************)
(* Claims about the 2023 day 14 platform                                   *)
(***************************************************************************)
\* the cells from a cell towards a side of the platform up to the next cube
\* rock or the edge, the cell itself excluded
RECURSIVE Ahead(_, _, _)
Ahead(grid, cell, delta) ==
    LET next == Shift(cell, delta)
    IN  IF next \notin Cells(<<Height(grid), Width(grid)>>) \/ Tile(grid, next) = CubeRock
        THEN {}
        ELSE {next} \cup Ahead(grid, next, delta)

\* the platform tilted towards a side: in every stretch between cube rocks
\* the round rocks lie at the end of the stretch on that side
Tilted(grid, delta) ==
    LET back == <<0 - delta[1], 0 - delta[2]>>
        stretch(c) == {c} \cup Ahead(grid, c, delta) \cup Ahead(grid, c, back)
        rocks(c) == Cardinality({x \in stretch(c) : Tile(grid, x) = RoundRock})
        tile == [c \in Cells(<<Height(grid), Width(grid)>>) |->
                    IF Tile(grid, c) = CubeRock THEN CubeRock
                    ELSE IF Cardinality(Ahead(grid, c, delta)) < rocks(c) THEN RoundRock
                    ELSE Dot]
    IN  GridFromSeparated(Newline, TileRows(0, Height(grid), Width(grid), tile))

\* one spin cycle: tilted north, then west, then south, then east
SpinCycle(grid) ==
    Tilted(Tilted(Tilted(Tilted(grid, <<-1, 0>>), <<0, -1>>), <<1, 0>>), <<0, 1>>)

RECURSIVE AfterCycles(_, _)
AfterCycles(grid, n) ==
    IF n = 0 THEN grid
    ELSE LET next == SpinCycle(grid)
         IN  IF next.ok THEN AfterCycles(next, n - 1) ELSE next

NorthLoad(grid) ==
    LET RECURSIVE RowLoad(_)
        RowLoad(r) ==
            IF r >= Height(grid) THEN 0
            ELSE (Height(grid) - r)
                    * Cardinality({c \in 0..(Width(grid) - 1) : Tile(grid, <<r, c>>) = RoundRock})
                 + RowLoad(r + 1)
    IN  RowLoad(0)

\* C24: the part-2 result of 2023 day 14 is the load on the north beams of
\* the platform after exactly MAX_CYCLES spin cycles (north, west, south,
\* east): skipping to (remaining cycles) mod (i - x) once the grid after
\* cycle i was seen after cycle x gives the grid of running all the cycles.
C24_CycleSkipping ==
    (args.fn = "platform" /\ result.done)
        => /\ locals.grid = AfterCycles(args.grid, args.max_cycles)
           /\ result = ResultOk(NorthLoad(AfterCycles(args.grid, args.max_cycles)))

\* the loop broke on a grid seen before, with a period above one and cycles
\* left to run
C24_Witness ==
    /\ args.fn = "platform" /\ result.done /\ locals.broke
    /\ LET x == locals.seen[SpinTimes(args.grid, locals.i)]
       IN  /\ locals.i - x > 1
           /\ (args.max_cycles - locals.i) % (locals.i - x) > 0
           /\ args.max_cycles - locals.i >= locals.i - x
    /\ result = ResultOk(NorthLoad(AfterCycles(args.grid, args.max_cycles)))
    /\ result.value > 0

(***************************************************************************)
(* Claims about the create command                                         *)
(***************************************************************************)
LinesWith(text) ==
    {k \in 1..Len(locals.listing.lines) : locals.listing.lines[k].text = text}

\* the listing declares every created day once and holds one marker line
ListedOnce ==
    args.fn = "create"
        => /\ \A c \in locals.created : Cardinality(LinesWith(ModDeclaration(c[2]))) = 1
           /\ Cardinality(LinesWith(MODULE_DECLARATION_MARKER)) = 1

\* a run of the command leaves the files that exist as they are
ExistingFilesKept ==
    (args.fn = "create" /\ locals'.runs # locals.runs)
        => \A path \in DOMAIN locals.fs :
              path \in DOMAIN locals'.fs /\ locals'.fs[path] = locals.fs[path]

\* C25: the create command is idempotent: run again for a year and day
\* that were already created it leaves the solver file and the example file
\* as they are, and the module listing holds exactly one `pub mod day<D>;`
\* for that day and exactly one marker line.
C25_CreateIdempotent == []ListedOnce /\ [][ExistingFilesKept]_vars

(***************************************************************************)
(* Specifications                                                          *)
(***************************************************************************)
InitCacheOnly == InitCache /\ IdleGrid /\ IdleIter /\ IdleSolve /\ IdleFn
NextCacheOnly ==
    \/ (\E p \in SeqCallers : CacheCall(p)) /\ UNCHANGED <<gridVars, iterVars, solveVars, fnVars>>
    \/ (\E p \in SeqCallers : FetchCall(p)) /\ UNCHANGED <<gridVars, iterVars, solveVars, fnVars>>
    \/ (\E p \in SeqCallers : FetchReturn(p)) /\ UNCHANGED <<gridVars, iterVars, solveVars, fnVars>>
    \/ (\E p \in SeqCallers : CreateFile(p)) /\ UNCHANGED <<gridVars, iterVars, solveVars, fnVars>>
    \/ (\E p \in SeqCallers : StreamNext(p)) /\ UNCHANGED <<gridVars, iterVars, solveVars, fnVars>>
    \/ (\E p \in SeqCallers : ReadFile(p)) /\ UNCHANGED <<gridVars, iterVars, solveVars, fnVars>>
    \/ (\E p \in SeqCallers : GetReturn(p)) /\ UNCHANGED <<gridVars, iterVars, solveVars, fnVars>>
    \/ BackgroundWrite /\ UNCHANGED <<gridVars, iterVars, solveVars, fnVars>>
SpecCache == InitCacheOnly /\ [][NextCacheOnly]_vars

InitConcOnly == InitConc /\ IdleGrid /\ IdleIter /\ IdleSolve /\ IdleFn
NextConcOnly ==
    \/ (\E p \in Callers : ConcCall(p)) /\ UNCHANGED <<gridVars, iterVars, solveVars, fnVars>>
    \/ (\E p \in Callers : FetchCall(p)) /\ UNCHANGED <<gridVars, iterVars, solveVars, fnVars>>
    \/ (\E p \in Callers : FetchReturn(p)) /\ UNCHANGED <<gridVars, iterVars, solveVars, fnVars>>
    \/ (\E p \in Callers : CreateFile(p)) /\ UNCHANGED <<gridVars, iterVars, solveVars, fnVars>>
    \/ (\E p \in Callers : StreamNext(p)) /\ UNCHANGED <<gridVars, iterVars, solveVars, fnVars>>
    \/ (\E p \in Callers : ReadFile(p)) /\ UNCHANGED <<gridVars, iterVars, solveVars, fnVars>>
    \/ (\E p \in Callers : GetReturn(p)) /\ UNCHANGED <<gridVars, iterVars, solveVars, fnVars>>
    \/ BackgroundWrite /\ UNCHANGED <<gridVars, iterVars, solveVars, fnVars>>
SpecConc == InitConcOnly /\ [][NextConcOnly]_vars

InitGridOnly == InitGrid /\ IdleCache /\ IdleIter /\ IdleSolve /\ IdleFn
NextGridOnly ==
    \/ GridConstruct /\ UNCHANGED <<cacheVars, iterVars, solveVars, fnVars>>
    \/ GridIndexCell /\ UNCHANGED <<cacheVars, iterVars, solveVars, fnVars>>
SpecGrid == InitGridOnly /\ [][NextGridOnly]_vars

InitIterOnly == InitIter /\ IdleCache /\ IdleGrid /\ IdleSolve /\ IdleFn
NextIterOnly == SurroundNext /\ UNCHANGED <<cacheVars, gridVars, solveVars, fnVars>>
SpecIter == InitIterOnly /\ [][NextIterOnly]_vars

InitNeighborOnly == InitNeighbor /\ IdleCache /\ IdleGrid /\ IdleSolve /\ IdleFn
NextNeighborOnly == NeighborNext /\ UNCHANGED <<cacheVars, gridVars, solveVars, fnVars>>
SpecNeighbor == InitNeighborOnly /\ [][NextNeighborOnly]_vars

InitSolveOnly == InitSolve /\ IdleGrid /\ IdleIter /\ IdleFn
NextSolveOnly ==
    \/ MainLoop /\ UNCHANGED <<gridVars, iterVars, fnVars>>
    \/ MainFetch /\ UNCHANGED <<gridVars, iterVars, fnVars>>
    \/ MainCacheStep(FetchReturn(Main)) /\ UNCHANGED <<gridVars, iterVars, fnVars>>
    \/ MainCacheStep(CreateFile(Main)) /\ UNCHANGED <<gridVars, iterVars, fnVars>>
    \/ MainCacheStep(StreamNext(Main)) /\ UNCHANGED <<gridVars, iterVars, fnVars>>
    \/ MainCacheStep(ReadFile(Main)) /\ UNCHANGED <<gridVars, iterVars, fnVars>>
    \/ BackgroundWrite /\ UNCHANGED <<gridVars, iterVars, solveVars, fnVars>>
    \/ MainGetDone /\ UNCHANGED <<gridVars, iterVars, fnVars>>
    \/ MainDispatch /\ UNCHANGED <<gridVars, iterVars, fnVars>>
    \/ MainPart1 /\ UNCHANGED <<gridVars, iterVars, fnVars>>
    \/ MainPart2 /\ UNCHANGED <<gridVars, iterVars, fnVars>>
SpecSolve == InitSolveOnly /\ [][NextSolveOnly]_vars

InitDay18Only == InitDay18 /\ IdleCache /\ IdleGrid /\ IdleIter /\ IdleSolve
NextDay18Only == Day18Step /\ UNCHANGED <<cacheVars, gridVars, iterVars, solveVars>>
SpecDay18 == InitDay18Only /\ [][NextDay18Only]_vars

InitDay16Only == InitDay16 /\ IdleCache /\ IdleGrid /\ IdleIter /\ IdleSolve
NextDay16Only ==
    \/ Day16Split /\ UNCHANGED <<cacheVars, gridVars, iterVars, solveVars>>
    \/ Day16Fold /\ UNCHANGED <<cacheVars, gridVars, iterVars, solveVars>>
    \/ Day16Reduce /\ UNCHANGED <<cacheVars, gridVars, iterVars, solveVars>>
    \/ Day16Return /\ UNCHANGED <<cacheVars, gridVars, iterVars, solveVars>>
SpecDay16 == InitDay16Only /\ [][NextDay16Only]_vars

InitDay1Only == InitDay1 /\ IdleCache /\ IdleGrid /\ IdleIter /\ IdleSolve
NextDay1Only ==
    \/ Day1Fold /\ UNCHANGED <<cacheVars, gridVars, iterVars, solveVars>>
    \/ Day1Return /\ UNCHANGED <<cacheVars, gridVars, iterVars, solveVars>>
SpecDay1 == InitDay1Only /\ [][NextDay1Only]_vars

InitDay10Only == InitDay10 /\ IdleCache /\ IdleGrid /\ IdleIter /\ IdleSolve
NextDay10Only == Day10Count /\ UNCHANGED <<cacheVars, gridVars, iterVars, solveVars>>
SpecDay10 == InitDay10Only /\ [][NextDay10Only]_vars

InitMazeOnly == InitMaze /\ IdleCache /\ IdleGrid /\ IdleIter /\ IdleSolve
NextMazeOnly == MazeStep /\ UNCHANGED <<cacheVars, gridVars, iterVars, solveVars>>
SpecMaze == InitMazeOnly /\ [][NextMazeOnly]_vars

InitDay8Only == InitDay8 /\ IdleCache /\ IdleGrid /\ IdleIter /\ IdleSolve
NextDay8Only ==
    \/ Day8Connect /\ UNCHANGED <<cacheVars, gridVars, iterVars, solveVars>>
    \/ Day8Return /\ UNCHANGED <<cacheVars, gridVars, iterVars, solveVars>>
SpecDay8 == InitDay8Only /\ [][NextDay8Only]_vars

InitDay23Only == InitDay23 /\ IdleCache /\ IdleGrid /\ IdleIter /\ IdleSolve
NextDay23Only ==
    \/ Day23Seed /\ UNCHANGED <<cacheVars, gridVars, iterVars, solveVars>>
    \/ Day23Return /\ UNCHANGED <<cacheVars, gridVars, iterVars, solveVars>>
SpecDay23 == InitDay23Only /\ [][NextDay23Only]_vars

InitDay9Only == InitDay9 /\ IdleCache /\ IdleGrid /\ IdleIter /\ IdleSolve
NextDay9Only ==
    \/ Day9Step /\ UNCHANGED <<cacheVars, gridVars, iterVars, solveVars>>
    \/ Day9Return /\ UNCHANGED <<cacheVars, gridVars, iterVars, solveVars>>
SpecDay9 == InitDay9Only /\ [][NextDay9Only]_vars

InitDay15Only == InitDay15 /\ IdleCache /\ IdleGrid /\ IdleIter /\ IdleSolve
NextDay15Only == Day15Move /\ UNCHANGED <<cacheVars, gridVars, iterVars, solveVars>>
SpecDay15 == InitDay15Only /\ [][NextDay15Only]_vars

InitDay14Only == InitDay14 /\ IdleCache /\ IdleGrid /\ IdleIter /\ IdleSolve
NextDay14Only ==
    \/ Day14Spin /\ UNCHANGED <<cacheVars, gridVars, iterVars, solveVars>>
    \/ Day14Return /\ UNCHANGED <<cacheVars, gridVars, iterVars, solveVars>>
SpecDay14 == InitDay14Only /\ [][NextDay14Only]_vars

InitCreateOnly == InitCreate /\ IdleCache /\ IdleGrid /\ IdleIter /\ IdleSolve
NextCreateOnly ==
    \/ CreateCommand /\ UNCHANGED <<cacheVars, gridVars, iterVars, solveVars>>
    \/ CreateEdit /\ UNCHANGED <<cacheVars, gridVars, iterVars, solveVars>>
SpecCreate == InitCreateOnly /\ [][NextCreateOnly]_vars

====
